---- MODULE Spec2Model ----
(***************************************************************************)
(* A model of the GovCon AI backend: the SAM.gov fetcher and normalizer    *)
(* (backend/sam_scraper.py), the match scorer and the HTTP handlers        *)
(* (backend/main.py) and the RFP analyzer (backend/summarizer.py).         *)
(*                                                                         *)
(* Python strings are sequences of one-character strings, so that          *)
(* lower(), strip(), replace(), startswith() and `in` are computed.        *)
(* Python floats are IEEE doubles, kept as exact multiples of 2^-57 in two *)
(* limbs, so that 0.5 + 0.2 + 0.1 and 0.5 + 0.3 differ as they do in the   *)
(* program.  JSON values are tagged records.                               *)
(***************************************************************************)
EXTENDS Integers, Sequences, FiniteSets, TLC

VARIABLES
    pc,         \* "idle", or the handler or function that has just returned
    now,        \* the wall clock, in days since the process started
    api_key,    \* sam_client.api_key: os.getenv("SAM_API_KEY"), None if unset
    req,        \* the inputs of the call that has just returned
    resp,       \* what that call returned, or the HTTP error it raised
    fetched,    \* the list fetch_opportunities returned to it, as returned
    held,       \* the dicts of the last fallback list, as the handler left them
    llmCalled   \* whether the call issued a completion request

vars == <<pc, now, api_key, req, resp, fetched, held, llmCalled>>

(***************************************************************************)
(* Bounds of the model.                                                    *)
(***************************************************************************)
MaxRecords == 3     \* records in one upstream response
MaxMissing == 2     \* upstream fields left out of (or kept of) a full record
MaxTime == 2        \* days the clock advances

(***************************************************************************)
(* Strings.                                                                *)
(***************************************************************************)
UpperChars == <<"A","B","C","D","E","F","G","H","I","J","K","L","M",
                "N","O","P","Q","R","S","T","U","V","W","X","Y","Z">>
LowerChars == <<"a","b","c","d","e","f","g","h","i","j","k","l","m",
                "n","o","p","q","r","s","t","u","v","w","x","y","z">>
DigitChars == <<"0","1","2","3","4","5","6","7","8","9">>

Range(s) == { s[i] : i \in DOMAIN s }

UpperSet == Range(UpperChars)
DigitSet == Range(DigitChars)

\* str.lower() on one character
LowerMap == [ c \in UpperSet |->
                LowerChars[CHOOSE i \in DOMAIN UpperChars : UpperChars[i] = c] ]

LowerChar(c) == IF c \in UpperSet THEN LowerMap[c] ELSE c

\* a variant that leaves every letter in its case
Lower_unchanged(s) == s

\* str.lower()
Lower(s) == [ i \in DOMAIN s |-> LowerChar(s[i]) ]

\* s.startswith(p)
StartsWith(s, p) == Len(p) <= Len(s) /\ SubSeq(s, 1, Len(p)) = p

\* p in s
Contains(s, p) ==
    \E i \in 0..(Len(s) - Len(p)) : \A j \in 1..Len(p) : s[i + j] = p[j]

\* s.replace(pat, rep): the non-overlapping occurrences, left to right
RECURSIVE Replace(_, _, _)
Replace(s, pat, rep) ==
    IF Len(s) < Len(pat) THEN s
    ELSE IF SubSeq(s, 1, Len(pat)) = pat
         THEN rep \o Replace(SubSeq(s, Len(pat) + 1, Len(s)), pat, rep)
         ELSE <<s[1]>> \o Replace(Tail(s), pat, rep)

\* the characters \s matches
WhiteSpace == {" ", "\t", "\n"}

\* str.strip()
RECURSIVE LStrip(_)
LStrip(s) == IF s # <<>> /\ s[1] \in WhiteSpace THEN LStrip(Tail(s)) ELSE s

RECURSIVE RStrip(_)
RStrip(s) ==
    IF s # <<>> /\ s[Len(s)] \in WhiteSpace
    THEN RStrip(SubSeq(s, 1, Len(s) - 1)) ELSE s

Strip(s) == RStrip(LStrip(s))

\* re.sub(r'\s+', ' ', s)
RECURSIVE CollapseWhiteSpace(_)
CollapseWhiteSpace(s) ==
    IF s = <<>> THEN <<>>
    ELSE IF s[1] \in WhiteSpace
         THEN <<" ">> \o CollapseWhiteSpace(LStrip(s))
         ELSE <<s[1]>> \o CollapseWhiteSpace(Tail(s))

\* re.sub(r'\D', '', s)
DigitsOf(s) == SelectSeq(s, LAMBDA c : c \in DigitSet)

\* ",".join / " ".join of two strings, and of a sequence of strings
RECURSIVE Concat(_)
Concat(ss) == IF ss = <<>> THEN <<>> ELSE Head(ss) \o Concat(Tail(ss))

(***************************************************************************)
(* IEEE doubles in [0, 4): a double x is the pair <<hi, lo>> with          *)
(* x = (hi * 2^29 + lo) / 2^57.  Every double the scorer meets is such a   *)
(* multiple of 2^-57.  An operation computes the exact result and rounds   *)
(* it to 53 significant bits, ties to even.                                *)
(***************************************************************************)
Limb == 2^29

FNorm(hi, lo) == <<hi + (lo \div Limb), lo % Limb>>

\* the exact sum, not rounded
FExactAdd(a, b) == FNorm(a[1] + b[1], a[2] + b[2])

\* the spacing of doubles at the magnitude of e, in units of 2^-57
FUlp(e) ==
    IF e[1] >= 2^29 THEN 64
    ELSE IF e[1] >= 2^28 THEN 32
    ELSE IF e[1] >= 2^27 THEN 16
    ELSE IF e[1] >= 2^26 THEN 8
    ELSE IF e[1] >= 2^25 THEN 4
    ELSE IF e[1] >= 2^24 THEN 2
    ELSE 1

\* round to nearest double, ties to even
FRound(e) ==
    LET g == FUlp(e)
        r == e[2] % g
        down == e[2] - r
        up == IF 2 * r > g THEN TRUE
              ELSE IF 2 * r < g THEN FALSE
              ELSE (down \div g) % 2 = 1
    IN  IF up THEN FNorm(e[1], down + g) ELSE <<e[1], down>>

\* a + b
FAdd(a, b) == FRound(FExactAdd(a, b))

\* k * x for a small int k
RECURSIVE FExactTimes(_, _)
FExactTimes(k, x) == IF k = 0 THEN <<0, 0>> ELSE FExactAdd(x, FExactTimes(k - 1, x))

FMulInt(k, x) == FRound(FExactTimes(k, x))

\* a <= b, a < b
FLeq(a, b) == a[1] < b[1] \/ (a[1] = b[1] /\ a[2] <= b[2])
FLess(a, b) == ~FLeq(b, a)

\* a variant of min(cap, x) that leaves the cap out
FMin_uncapped(a, b) == b

\* min(a, b)
FMin(a, b) == IF FLess(b, a) THEN b ELSE a

\* the literals of the scorer
F_0_0 == <<0, 0>>
F_0_05 == <<13421772, 429496730>>
F_0_1 == <<26843545, 322122548>>
F_0_2 == <<53687091, 107374184>>
F_0_3 == <<80530636, 429496728>>
F_0_5 == <<134217728, 0>>
F_1_0 == <<268435456, 0>>

(***************************************************************************)
(* JSON / Python values: tagged records.  A number is a non-negative int,  *)
(* kept as its decimal digits (so that amounts of 10 digits and more fit); *)
(* a dict is a function from its keys; a float is a double as above.       *)
(***************************************************************************)
Null == [t |-> "null"]
Str(s) == [t |-> "str", s |-> s]
Num(d) == [t |-> "num", n |-> d]
List(l) == [t |-> "list", l |-> l]
Dict(d) == [t |-> "dict", d |-> d]
Float(f) == [t |-> "float", f |-> f]

EmptyDict == Dict(<<>>)
EmptyStr == Str(<<>>)

IsStr(v) == v.t = "str"
IsDict(v) == v.t = "dict"

\* bool(v): what `if v:` and `not v` test
Truthy(v) ==
    CASE v.t = "null" -> FALSE
      [] v.t = "str" -> v.s # <<>>
      [] v.t = "num" -> v.n # <<"0">>
      [] v.t = "list" -> v.l # <<>>
      [] v.t = "dict" -> DOMAIN v.d # {}
      [] v.t = "float" -> v.f # <<0, 0>>

\* d.get(k, dflt) on a dict d
Get(d, k, dflt) == IF k \in DOMAIN d.d THEN d.d[k] ELSE dflt

\* the characters of the dict keys that str() prints
KeyChars(k) ==
    CASE k = "name" -> <<"n","a","m","e">>
      [] k = "code" -> <<"c","o","d","e">>

\* repr(v) of a str without quotes in it, None and an int
PyRepr(v) ==
    CASE v.t = "str" -> <<"'">> \o v.s \o <<"'">>
      [] v.t = "null" -> <<"N","o","n","e">>
      [] v.t = "num" -> v.n

\* str(v), for the values a place of performance holds: a str is itself,
\* None is "None", an int its digits, an empty list "[]", a dict of at
\* most one entry its repr
PyStr(v) ==
    CASE v.t = "str" -> v.s
      [] v.t = "null" -> <<"N","o","n","e">>
      [] v.t = "num" -> v.n
      [] v.t = "list" /\ v.l = <<>> -> <<"[","]">>
      [] v.t = "dict" /\ DOMAIN v.d = {} -> <<"{","}">>
      [] v.t = "dict" /\ Cardinality(DOMAIN v.d) = 1 ->
            LET k == CHOOSE x \in DOMAIN v.d : TRUE
            IN  <<"{","'">> \o KeyChars(k) \o <<"'",":"," ">>
                    \o PyRepr(v.d[k]) \o <<"}">>

(***************************************************************************)
(* sam_scraper.py: the field cleaners.  A cleaner applied to a value it    *)
(* cannot handle raises; X_raises says when, X gives the value otherwise.  *)
(***************************************************************************)
OpenCompetition == <<"O","p","e","n"," ","C","o","m","p","e","t","i","t","i","o","n">>
NotSpecified == <<"N","o","t"," ","s","p","e","c","i","f","i","e","d">>
SmallBusiness == <<"S","m","a","l","l"," ","B","u","s","i","n","e","s","s">>
SDVOSB == <<"S","D","V","O","S","B">>

\* the HTML entities, in the order the dict lists them
HtmlEntities == << <<<<"&","a","m","p",";">>, <<"&">> >>,
                   <<<<"&","l","t",";">>, <<"<">> >>,
                   <<<<"&","g","t",";">>, <<">">> >>,
                   <<<<"&","q","u","o","t",";">>, <<"\"">> >>,
                   <<<<"&","#","3","9",";">>, <<"'">> >> >>

RECURSIVE ReplaceEntities(_, _)
ReplaceEntities(s, i) ==
    IF i > Len(HtmlEntities) THEN s
    ELSE ReplaceEntities(Replace(s, HtmlEntities[i][1], HtmlEntities[i][2]), i + 1)

\* text.strip() of a truthy non-str raises AttributeError
_clean_text_raises(text) == Truthy(text) /\ ~IsStr(text)

_clean_text(text) ==
    IF ~Truthy(text) THEN EmptyStr
    ELSE Str(ReplaceEntities(CollapseWhiteSpace(Strip(text.s)), 1))

\* re.sub on a truthy non-str raises TypeError
_clean_phone_raises(phone) == Truthy(phone) /\ ~IsStr(phone)

_clean_phone(phone) ==
    IF ~Truthy(phone) THEN EmptyStr
    ELSE LET digits == DigitsOf(phone.s)
         IN  IF Len(digits) = 10
             THEN Str(<<"(">> \o SubSeq(digits, 1, 3) \o <<")", " ">>
                      \o SubSeq(digits, 4, 6) \o <<"-">> \o SubSeq(digits, 7, 10))
             ELSE IF Len(digits) = 11 /\ digits[1] = "1"
             THEN Str(<<"(">> \o SubSeq(digits, 2, 4) \o <<")", " ">>
                      \o SubSeq(digits, 5, 7) \o <<"-">> \o SubSeq(digits, 8, 11))
             ELSE phone

\* set_aside_text.lower() of a truthy non-str raises AttributeError
_parse_set_aside_raises(set_aside_text) ==
    Truthy(set_aside_text) /\ ~IsStr(set_aside_text)

\* a variant that hands the text through, without the default
_parse_set_aside_passthrough(set_aside_text) == set_aside_text

_parse_set_aside(set_aside_text) ==
    IF ~Truthy(set_aside_text) THEN Str(OpenCompetition)
    ELSE LET set_aside_lower == Lower(set_aside_text.s)
         IN  IF Contains(set_aside_lower, <<"s","e","r","v","i","c","e","-","d","i","s","a","b","l","e","d">>)
                \/ Contains(set_aside_lower, <<"s","d","v","o","s","b">>)
             THEN Str(SDVOSB)
             ELSE IF Contains(set_aside_lower, <<"w","o","m","e","n","-","o","w","n","e","d">>)
                     \/ Contains(set_aside_lower, <<"w","o","s","b">>)
             THEN Str(<<"W","O","S","B">>)
             ELSE IF Contains(set_aside_lower, <<"h","u","b","z","o","n","e">>)
             THEN Str(<<"H","u","b","Z","o","n","e">>)
             ELSE IF Contains(set_aside_lower, <<"s","m","a","l","l"," ","b","u","s","i","n","e","s","s">>)
             THEN Str(SmallBusiness)
             ELSE IF Contains(set_aside_text.s, <<"8","(","a",")">>)
             THEN Str(<<"8","(","a",")">>)
             ELSE set_aside_text

\* location_data.get of a truthy non-dict, and .get of a state that is not
\* a dict, raise AttributeError
_parse_location_raises(location_data) ==
    /\ Truthy(location_data)
    /\ \/ ~IsDict(location_data)
       \/ /\ IsDict(Get(location_data, "city", EmptyDict))
          /\ ~IsDict(Get(location_data, "state", EmptyDict))

_parse_location(location_data) ==
    IF ~Truthy(location_data) THEN Str(NotSpecified)
    ELSE LET city_data == Get(location_data, "city", EmptyDict)
             city == Get(city_data, "name", EmptyStr)
             state == Get(Get(location_data, "state", EmptyDict), "name", EmptyStr)
             fallback == Str(PyStr(Get(location_data, "city", Str(NotSpecified))))
         IN  IF IsDict(city_data)
             THEN IF Truthy(city) /\ Truthy(state)
                  THEN Str(PyStr(city) \o <<",", " ">> \o PyStr(state))
                  ELSE IF Truthy(city) THEN city
                  ELSE fallback
             ELSE fallback

(***************************************************************************)
(* sam_scraper.py: currency formatting and the estimated value.            *)
(***************************************************************************)
DigitVal(c) == (CHOOSE i \in DOMAIN DigitChars : DigitChars[i] = c) - 1

\* int(s) of a run of digits of at most 9 digits, and str(n)
RECURSIVE ToNat(_)
ToNat(d) == IF d = <<>> THEN 0
            ELSE 10 * ToNat(SubSeq(d, 1, Len(d) - 1)) + DigitVal(d[Len(d)])

RECURSIVE NatStr(_)
NatStr(n) == IF n < 10 THEN <<DigitChars[n + 1]>>
             ELSE NatStr(n \div 10) \o <<DigitChars[(n % 10) + 1]>>

\* the decimal digits of int(d): leading zeros dropped
RECURSIVE CanonDigits(_)
CanonDigits(d) == IF Len(d) > 1 /\ d[1] = "0" THEN CanonDigits(Tail(d)) ELSE d

\* floor(log2(n)) for n >= 1
RECURSIVE Log2Floor(_)
Log2Floor(n) == IF n < 2 THEN 0 ELSE 1 + Log2Floor(n \div 2)

\* 2^j mod 5
Pow2Mod5(j) == <<1, 2, 4, 3>>[(j % 4) + 1]

\* f"{v:.1f}" at a tie, v = n20 / 20 with n20 odd, v >= 1: whether the
\* digit is rounded up.  v is a double exactly when 5 divides n20, and the
\* tie then goes to the even digit; otherwise the division has rounded v
\* to the double next to it, below or above, and that decides.
TieUp(n20) ==
    IF n20 % 5 = 0 THEN ((n20 - 1) \div 2) % 2 = 1
    ELSE LET e == Log2Floor(n20 \div 20)
             m == ((n20 % 5) * Pow2Mod5(50 - e)) % 5
         IN  m \in {3, 4}

\* f"{amount/unit:.1f}" with amount = ip * unit + fr
OneDecimal(ip, fr, unit) ==
    LET tenth == unit \div 10
        q0 == ip * 10 + (fr \div tenth)
        rem == fr % tenth
        half == tenth \div 2
        up == IF rem > half THEN TRUE
              ELSE IF rem < half THEN FALSE
              ELSE TieUp(2 * q0 + 1)
        q == IF up THEN q0 + 1 ELSE q0
    IN  NatStr(q \div 10) \o <<".">> \o NatStr(q % 10)

\* f"{amount/1_000:.0f}" with amount = ip * 1000 + rem: a tie is a double,
\* and goes to the even integer
NoDecimal(ip, rem) ==
    LET up == IF rem > 500 THEN TRUE
              ELSE IF rem < 500 THEN FALSE
              ELSE ip % 2 = 1
    IN  NatStr(IF up THEN ip + 1 ELSE ip)

\* amount: the decimal digits of a non-negative int
_format_currency(amount) ==
    LET n == Len(amount)
    IN  IF n >= 10
        THEN <<"$">> \o OneDecimal(ToNat(SubSeq(amount, 1, n - 9)),
                                   ToNat(SubSeq(amount, n - 8, n)), 10^9) \o <<"B">>
        ELSE IF n >= 7
        THEN <<"$">> \o OneDecimal(ToNat(amount) \div 10^6, ToNat(amount) % 10^6, 10^6)
                 \o <<"M">>
        ELSE IF n >= 4
        THEN <<"$">> \o NoDecimal(ToNat(amount) \div 1000, ToNat(amount) % 1000)
                 \o <<"K">>
        ELSE <<"$">> \o amount

\* [\d,]
DigitOrComma == DigitSet \cup {","}

\* the end of the longest run of [\d,] that starts at i
RunEnd(s, i) ==
    CHOOSE j \in i..Len(s) :
        /\ \A k \in i..j : s[k] \in DigitOrComma
        /\ j = Len(s) \/ s[j + 1] \notin DigitOrComma

\* the first index from k on that holds no white space (Len(s) + 1 if none)
SkipWs(s, k) ==
    CHOOSE m \in k..(Len(s) + 1) :
        /\ \A x \in k..(m - 1) : s[x] \in WhiteSpace
        /\ m = Len(s) + 1 \/ s[m] \notin WhiteSpace

\* w, in lower case, matches at k whatever the case (re.IGNORECASE)
MatchWord(s, k, w) ==
    k + Len(w) - 1 <= Len(s) /\ Lower(SubSeq(s, k, k + Len(w) - 1)) = w

\* (?:\.\d{2}) matches after j
DecimalAt(s, j) ==
    j + 3 <= Len(s) /\ s[j + 1] = "." /\ s[j + 2] \in DigitSet /\ s[j + 3] \in DigitSet

\* (?:million|M|billion|B), in the order the alternatives are tried
Units == <<<<"m","i","l","l","i","o","n">>, <<"m">>, <<"b","i","l","l","i","o","n">>, <<"b">>>>

\* re.findall(r'\$?[\d,]+', value)[0], or <<>> when nothing matches
FirstNumber(s) ==
    LET starts == { i \in DOMAIN s :
                      \/ s[i] \in DigitOrComma
                      \/ s[i] = "$" /\ i < Len(s) /\ s[i + 1] \in DigitOrComma }
    IN  IF starts = {} THEN <<>>
        ELSE LET i == CHOOSE x \in starts : \A y \in starts : x <= y
             IN  IF s[i] = "$" THEN SubSeq(s, i, RunEnd(s, i + 1))
                 ELSE SubSeq(s, i, RunEnd(s, i))

\* the end of the match of \$[\d,]+(?:\.\d{2})?(?:\s*(?:million|M|billion|B))?
\* that starts at the "$" at i
DollarMatchEnd(s, i) ==
    LET j == RunEnd(s, i + 1)
        j2 == IF DecimalAt(s, j) THEN j + 3 ELSE j
        k == SkipWs(s, j2 + 1)
        us == { u \in DOMAIN Units : MatchWord(s, k, Units[u]) }
    IN  IF us = {} THEN j2
        ELSE k + Len(Units[CHOOSE u \in us : \A v \in us : u <= v]) - 1

\* \s*dollars? matches from m on: the end of the match, or 0
DollarsWordEnd(s, m) ==
    LET k == SkipWs(s, m)
    IN  IF ~MatchWord(s, k, <<"d","o","l","l","a","r">>) THEN 0
        ELSE IF MatchWord(s, k + 6, <<"s">>) THEN k + 6 ELSE k + 5

\* \s*(?:million|M|billion|B)\s*dollars? matches after j2: the end, or 0
UnitDollarsEnd(s, j2) ==
    LET k == SkipWs(s, j2 + 1)
        us == { u \in DOMAIN Units :
                  MatchWord(s, k, Units[u])
                  /\ DollarsWordEnd(s, k + Len(Units[u])) # 0 }
    IN  IF us = {} THEN 0
        ELSE DollarsWordEnd(s, k + Len(Units[CHOOSE u \in us : \A v \in us : u <= v]))

\* the end of the match of [\d,]+(?:\.\d{2})?\s*(?:million|M|billion|B)\s*dollars?
\* that starts at i, or 0: the decimals are taken first, and given back if
\* the rest does not follow them
WordsMatchEnd(s, i) ==
    LET j == RunEnd(s, i)
    IN  IF DecimalAt(s, j) /\ UnitDollarsEnd(s, j + 3) # 0
        THEN UnitDollarsEnd(s, j + 3)
        ELSE UnitDollarsEnd(s, j)

\* re.findall(pattern, description, re.IGNORECASE)[0] for the two value
\* patterns, or <<>> when there is no match
FirstDollarMatch(s) ==
    LET starts == { i \in DOMAIN s :
                      s[i] = "$" /\ i < Len(s) /\ s[i + 1] \in DigitOrComma }
    IN  IF starts = {} THEN <<>>
        ELSE LET i == CHOOSE x \in starts : \A y \in starts : x <= y
             IN  SubSeq(s, i, DollarMatchEnd(s, i))

FirstWordsMatch(s) ==
    LET starts == { i \in DOMAIN s :
                      s[i] \in DigitOrComma /\ WordsMatchEnd(s, i) # 0 }
    IN  IF starts = {} THEN <<>>
        ELSE LET i == CHOOSE x \in starts : \A y \in starts : x <= y
             IN  SubSeq(s, i, WordsMatchEnd(s, i))

\* what one pass of the loop over value_fields returns for `value`, or Null
\* when the loop goes on to the next field
ValueOfField(value) ==
    IF ~Truthy(value) THEN Null
    ELSE IF value.t = "num" THEN Str(_format_currency(value.n))
    ELSE IF value.t = "str"
    THEN LET number == FirstNumber(value.s)
             digits == SelectSeq(number, LAMBDA c : c \notin {",", "$"})
         IN  IF number = <<>> \/ digits = <<>> THEN Null
             ELSE Str(_format_currency(CanonDigits(digits)))
    ELSE Null

\* item.get("award", {}).get of an award that is not a dict raises
\* AttributeError; re.findall on a description that is not a str raises
\* TypeError, when no value field has returned before
_parse_estimated_value_raises(item) ==
    \/ ~IsDict(Get(item, "award", EmptyDict))
    \/ /\ \A f \in {Get(Get(item, "award", EmptyDict), "amount", Null),
                    Get(item, "estimatedValue", Null),
                    Get(item, "baseAndAllOptionsValue", Null)} :
               ValueOfField(f) = Null
       /\ ~IsStr(Get(item, "description", EmptyStr))

_parse_estimated_value(item) ==
    LET value_fields == <<Get(Get(item, "award", EmptyDict), "amount", Null),
                          Get(item, "estimatedValue", Null),
                          Get(item, "baseAndAllOptionsValue", Null)>>
        found == { i \in DOMAIN value_fields : ValueOfField(value_fields[i]) # Null }
        description == Get(item, "description", EmptyStr).s
    IN  IF found # {}
        THEN ValueOfField(value_fields[CHOOSE i \in found : \A j \in found : i <= j])
        ELSE IF FirstDollarMatch(description) # <<>>
        THEN Str(<<"~">> \o FirstDollarMatch(description))
        ELSE IF FirstWordsMatch(description) # <<>>
        THEN Str(<<"~">> \o FirstWordsMatch(description))
        ELSE Str(NotSpecified)

(***************************************************************************)
(* sam_scraper.py: one upstream record to one opportunity.                 *)
(***************************************************************************)
\* contacts[0] if contacts else {}: indexing a str gives its first
\* character; indexing a dict by 0 or an int at all raises
ContactsIndexRaises(contacts) ==
    Truthy(contacts) /\ contacts.t \notin {"list", "str"}

PrimaryContact(contacts) ==
    IF ~Truthy(contacts) THEN EmptyDict
    ELSE IF contacts.t = "list" THEN contacts.l[1]
    ELSE Str(<<contacts.s[1]>>)

\* the loop body of _parse_opportunities raises for this item
ParseItemRaises(item) ==
    \/ ~IsDict(item)
    \/ _parse_estimated_value_raises(item)
    \/ ContactsIndexRaises(Get(item, "pointOfContact", List(<<>>)))
    \/ ~IsDict(PrimaryContact(Get(item, "pointOfContact", List(<<>>))))
    \/ \E k \in {"title", "departmentName", "subTier", "naicsCodeDescription",
                 "description"} : _clean_text_raises(Get(item, k, EmptyStr))
    \/ _parse_set_aside_raises(Get(item, "typeOfSetAside", EmptyStr))
    \/ _parse_location_raises(Get(item, "placeOfPerformance", EmptyDict))
    \/ _clean_text_raises(
           Get(PrimaryContact(Get(item, "pointOfContact", List(<<>>))),
               "fullName", EmptyStr))
    \/ _clean_phone_raises(
           Get(PrimaryContact(Get(item, "pointOfContact", List(<<>>))),
               "phone", EmptyStr))

\* the opportunity the loop body builds from an item
ParseItem(item) ==
    LET primary_contact == PrimaryContact(Get(item, "pointOfContact", List(<<>>)))
    IN  Dict([
          id |-> Get(item, "noticeId", Get(item, "solicitationNumber", EmptyStr)),
          title |-> _clean_text(Get(item, "title", EmptyStr)),
          agency |-> _clean_text(Get(item, "departmentName", EmptyStr)),
          office |-> _clean_text(Get(item, "subTier", EmptyStr)),
          solicitationNumber |-> Get(item, "solicitationNumber", EmptyStr),
          naics |-> Get(item, "naicsCode", EmptyStr),
          naicsDescription |-> _clean_text(Get(item, "naicsCodeDescription", EmptyStr)),
          setAsideType |-> _parse_set_aside(Get(item, "typeOfSetAside", EmptyStr)),
          dueDate |-> Get(item, "responseDeadLine", EmptyStr),
          postedDate |-> Get(item, "postedDate", EmptyStr),
          estimatedValue |-> _parse_estimated_value(item),
          placeOfPerformance |->
              _parse_location(Get(item, "placeOfPerformance", EmptyDict)),
          description |-> _clean_text(Get(item, "description", EmptyStr)),
          url |-> Get(item, "uiLink", EmptyStr),
          type |-> Get(item, "noticeType", EmptyStr),
          contactInfo |-> Dict([
              name |-> _clean_text(Get(primary_contact, "fullName", EmptyStr)),
              email |-> Get(primary_contact, "email", EmptyStr),
              phone |-> _clean_phone(Get(primary_contact, "phone", EmptyStr)) ]),
          additionalInfo |-> Dict([
              classificationCode |-> Get(item, "classificationCode", EmptyStr),
              organizationType |-> Get(item, "organizationType", EmptyStr),
              state |-> Get(item, "state", EmptyStr) ]) ])

\* raw_data: a sequence of items.  One item that raises aborts the call.
_parse_opportunities_raises(raw_data) ==
    \E i \in DOMAIN raw_data : ParseItemRaises(raw_data[i])

_parse_opportunities(raw_data) ==
    [ i \in DOMAIN raw_data |-> ParseItem(raw_data[i]) ]

(***************************************************************************)
(* sam_scraper.py: the fallback records.  datetime.isoformat() of the day  *)
(* d is written "D" and the day number: one string per day.                *)
(***************************************************************************)
IsoFormat(d) ==
    IF d < 0 THEN <<"D", "-">> \o NatStr(0 - d) ELSE <<"D">> \o NatStr(d)

\* the list literal of _get_fallback_data, evaluated at day t
FallbackRecords(t) ==
    << Dict([
          id |-> Str(<<"f","a","l","l","b","a","c","k","-","1">>),
          title |-> Str(<<"I","T"," ","I","n","f","r","a","s","t","r","u","c","t","u","r","e"," ","M","o","d","e","r","n","i","z","a","t","i","o","n"," ","S","e","r","v","i","c","e","s">>),
          agency |-> Str(<<"D","e","p","a","r","t","m","e","n","t"," ","o","f"," ","V","e","t","e","r","a","n","s"," ","A","f","f","a","i","r","s">>),
          office |-> Str(<<"O","f","f","i","c","e"," ","o","f"," ","I","n","f","o","r","m","a","t","i","o","n"," ","T","e","c","h","n","o","l","o","g","y">>),
          solicitationNumber |-> Str(<<"3","6","C","1","0","G","2","4","R","0","0","2","9">>),
          naics |-> Str(<<"5","4","1","5","1","2">>),
          naicsDescription |-> Str(<<"C","o","m","p","u","t","e","r"," ","S","y","s","t","e","m","s"," ","D","e","s","i","g","n"," ","S","e","r","v","i","c","e","s">>),
          setAsideType |-> Str(<<"S","D","V","O","S","B">>),
          dueDate |-> Str(IsoFormat(t + 21) \o <<"Z">>),
          postedDate |-> Str(IsoFormat(t) \o <<"Z">>),
          estimatedValue |-> Str(<<"$","2",".","5","M"," ","-"," ","$","1","5","M">>),
          placeOfPerformance |-> Str(<<"W","a","s","h","i","n","g","t","o","n",","," ","D","C">>),
          description |-> Str(<<"T","h","e"," ","D","e","p","a","r","t","m","e","n","t"," ","o","f"," ","V","e","t","e","r","a","n","s"," ","A","f","f","a","i","r","s"," ","i","s"," ","s","e","e","k","i","n","g"," ","q","u","a","l","i","f","i","e","d"," ","c","o","n","t","r","a","c","t","o","r","s"," ","t","o"," ","p","r","o","v","i","d","e"," ","c","o","m","p","r","e","h","e","n","s","i","v","e"," ","I","T"," ","i","n","f","r","a","s","t","r","u","c","t","u","r","e"," ","m","o","d","e","r","n","i","z","a","t","i","o","n"," ","s","e","r","v","i","c","e","s"," ","i","n","c","l","u","d","i","n","g"," ","c","l","o","u","d"," ","m","i","g","r","a","t","i","o","n",","," ","c","y","b","e","r","s","e","c","u","r","i","t","y"," ","i","m","p","l","e","m","e","n","t","a","t","i","o","n",","," ","a","n","d"," ","l","e","g","a","c","y"," ","s","y","s","t","e","m"," ","i","n","t","e","g","r","a","t","i","o","n",".">>),
          url |-> Str(<<"h","t","t","p","s",":","/","/","s","a","m",".","g","o","v">>),
          type |-> Str(<<"S","o","l","i","c","i","t","a","t","i","o","n">>),
          contactInfo |-> Dict([
              name |-> Str(<<"S","a","r","a","h"," ","J","o","h","n","s","o","n">>),
              email |-> Str(<<"s","a","r","a","h",".","j","o","h","n","s","o","n","@","v","a",".","g","o","v">>),
              phone |-> Str(<<"(","2","0","2",")"," ","5","5","5","-","0","1","2","3">>) ]),
          additionalInfo |-> Dict([
              classificationCode |-> Str(<<"R">>),
              organizationType |-> Str(<<"F","e","d","e","r","a","l"," ","A","g","e","n","c","y">>),
              state |-> Str(<<"D","C">>) ]) ]),
       Dict([
          id |-> Str(<<"f","a","l","l","b","a","c","k","-","2">>),
          title |-> Str(<<"C","y","b","e","r","s","e","c","u","r","i","t","y"," ","A","s","s","e","s","s","m","e","n","t"," ","a","n","d"," ","P","e","n","e","t","r","a","t","i","o","n"," ","T","e","s","t","i","n","g">>),
          agency |-> Str(<<"D","e","p","a","r","t","m","e","n","t"," ","o","f"," ","H","o","m","e","l","a","n","d"," ","S","e","c","u","r","i","t","y">>),
          office |-> Str(<<"C","y","b","e","r","s","e","c","u","r","i","t","y"," ","a","n","d"," ","I","n","f","r","a","s","t","r","u","c","t","u","r","e"," ","S","e","c","u","r","i","t","y"," ","A","g","e","n","c","y">>),
          solicitationNumber |-> Str(<<"7","0","R","S","A","T","2","5","R","0","0","0","0","0","0","0","1">>),
          naics |-> Str(<<"5","4","1","6","9","0">>),
          naicsDescription |-> Str(<<"O","t","h","e","r"," ","S","c","i","e","n","t","i","f","i","c"," ","a","n","d"," ","T","e","c","h","n","i","c","a","l"," ","C","o","n","s","u","l","t","i","n","g"," ","S","e","r","v","i","c","e","s">>),
          setAsideType |-> Str(<<"S","m","a","l","l"," ","B","u","s","i","n","e","s","s">>),
          dueDate |-> Str(IsoFormat(t + 28) \o <<"Z">>),
          postedDate |-> Str(IsoFormat(t - 2) \o <<"Z">>),
          estimatedValue |-> Str(<<"$","5","0","0","K"," ","-"," ","$","2","M">>),
          placeOfPerformance |-> Str(<<"M","u","l","t","i","p","l","e"," ","L","o","c","a","t","i","o","n","s">>),
          description |-> Str(<<"C","I","S","A"," ","r","e","q","u","i","r","e","s"," ","c","o","m","p","r","e","h","e","n","s","i","v","e"," ","c","y","b","e","r","s","e","c","u","r","i","t","y"," ","a","s","s","e","s","s","m","e","n","t"," ","s","e","r","v","i","c","e","s"," ","i","n","c","l","u","d","i","n","g"," ","v","u","l","n","e","r","a","b","i","l","i","t","y"," ","a","s","s","e","s","s","m","e","n","t","s",","," ","p","e","n","e","t","r","a","t","i","o","n"," ","t","e","s","t","i","n","g",","," ","a","n","d"," ","s","e","c","u","r","i","t","y"," ","c","o","m","p","l","i","a","n","c","e"," ","a","u","d","i","t","s"," ","f","o","r"," ","c","r","i","t","i","c","a","l"," ","i","n","f","r","a","s","t","r","u","c","t","u","r","e"," ","s","y","s","t","e","m","s",".">>),
          url |-> Str(<<"h","t","t","p","s",":","/","/","s","a","m",".","g","o","v">>),
          type |-> Str(<<"C","o","m","b","i","n","e","d"," ","S","y","n","o","p","s","i","s","/","S","o","l","i","c","i","t","a","t","i","o","n">>),
          contactInfo |-> Dict([
              name |-> Str(<<"M","i","c","h","a","e","l"," ","C","h","e","n">>),
              email |-> Str(<<"m","i","c","h","a","e","l",".","c","h","e","n","@","d","h","s",".","g","o","v">>),
              phone |-> Str(<<"(","2","0","2",")"," ","5","5","5","-","0","4","5","6">>) ]),
          additionalInfo |-> Dict([
              classificationCode |-> Str(<<"R">>),
              organizationType |-> Str(<<"F","e","d","e","r","a","l"," ","A","g","e","n","c","y">>),
              state |-> Str(<<"D","C">>) ]) ]) >>

\* a variant that builds the list once and hands out the same dicts again
_get_fallback_data_shared(t) == IF held = <<>> THEN FallbackRecords(t) ELSE held

\* every call builds a fresh list of two fresh dicts
_get_fallback_data(t) == FallbackRecords(t)

(***************************************************************************)
(* sam_scraper.py: fetch_opportunities, from the request on.  The query    *)
(* parameters (the date window, limit, NAICS and set-aside filters) only   *)
(* shape the request, and days_back is taken to be in the range the date   *)
(* arithmetic before the try accepts.  The upstream is a black box whose   *)
(* answer is an input:                                                     *)
(*   [kind |-> "network_error"]           the request raised               *)
(*   [kind |-> "status", code |-> c]      a response with status c # 200   *)
(*   [kind |-> "bad_body"]                200, response.json() raised      *)
(*   [kind |-> "ok", data |-> v]          200 with the JSON value v        *)
(*   [kind |-> "not_sent"]                no key: the request raised       *)
(***************************************************************************)
\* `for item in raw` raises for None and an int; a str or a dict iterates
\* its characters or keys, each a str
IterRaises(raw) == raw.t \in {"null", "num", "float"}

IterItems(raw) ==
    CASE raw.t = "list" -> raw.l
      [] raw.t = "str" -> [ i \in DOMAIN raw.s |-> Str(<<raw.s[i]>>) ]
      [] raw.t = "dict" /\ DOMAIN raw.d = {} -> <<>>

\* the try block falls to `except Exception`, or takes the else branch of
\* the status test: the fallback list is returned.  key: self.api_key, which
\* aiohttp refuses as a query value when it is None
FetchFallsBack(key, upstream) ==
    \/ key = Null
    \/ upstream.kind \in {"network_error", "status", "bad_body"}
    \/ /\ upstream.kind = "ok"
       /\ \/ ~IsDict(upstream.data)
          \/ IterRaises(Get(upstream.data, "opportunitiesData", List(<<>>)))
          \/ _parse_opportunities_raises(
                 IterItems(Get(upstream.data, "opportunitiesData", List(<<>>))))

\* a variant with the operands of `in` exchanged
AgencyMatches_swapped(opp, agency_filter) ==
    Contains(Lower(agency_filter.s), Lower(Get(opp, "agency", EmptyStr).s))

\* agency_filter.lower() in opp.get('agency', '').lower()
AgencyMatches(opp, agency_filter) ==
    Contains(Lower(Get(opp, "agency", EmptyStr).s), Lower(agency_filter.s))

fetch_opportunities(key, agency_filter, upstream, t) ==
    IF FetchFallsBack(key, upstream) THEN _get_fallback_data(t)
    ELSE LET opportunities == _parse_opportunities(
                 IterItems(Get(upstream.data, "opportunitiesData", List(<<>>))))
         IN  IF Truthy(agency_filter)
             THEN SelectSeq(opportunities, LAMBDA opp : AgencyMatches(opp, agency_filter))
             ELSE opportunities

(***************************************************************************)
(* main.py: the match score.                                               *)
(***************************************************************************)
high_value_keywords == <<<<"c","l","o","u","d">>, <<"c","y","b","e","r","s","e","c","u","r","i","t","y">>, <<"i","n","f","r","a","s","t","r","u","c","t","u","r","e">>,
                         <<"m","o","d","e","r","n","i","z","a","t","i","o","n">>, <<"d","i","g","i","t","a","l">>>>

\* needle in v: a substring of a str, an element of a list, a key of a dict
PyIn(needle, key, v) ==
    CASE v.t = "str" -> Contains(v.s, needle)
      [] v.t = "list" -> \E i \in DOMAIN v.l : v.l[i] = Str(needle)
      [] v.t = "dict" -> key \in DOMAIN v.d

\* naics.startswith of a non-str raises AttributeError; `in` a None or a
\* number raises TypeError
calculate_basic_match_score_raises(opportunity) ==
    \/ ~IsStr(Get(opportunity, "naics", EmptyStr))
    \/ Get(opportunity, "setAsideType", EmptyStr).t \in {"null", "num", "float"}

calculate_basic_match_score(opportunity) ==
    LET naics == Get(opportunity, "naics", EmptyStr).s
        set_aside == Get(opportunity, "setAsideType", EmptyStr)
        title_desc == Lower(PyStr(Get(opportunity, "title", EmptyStr)) \o <<" ">>
                            \o PyStr(Get(opportunity, "description", EmptyStr)))
        keyword_matches == Cardinality({ i \in DOMAIN high_value_keywords :
                                           Contains(title_desc, high_value_keywords[i]) })
        score1 == IF \/ StartsWith(naics, <<"5","4","1","5","1","2">>)
                     \/ StartsWith(naics, <<"5","4","1","5","1","1">>)
                     \/ StartsWith(naics, <<"5","1","8","2","1","0">>)
                  THEN FAdd(F_0_5, F_0_3) ELSE F_0_5
        score2 == IF \/ PyIn(<<"S","D","V","O","S","B">>, "SDVOSB", set_aside)
                     \/ PyIn(<<"S","e","r","v","i","c","e","-","D","i","s","a","b","l","e","d">>, "Service-Disabled", set_aside)
                  THEN FAdd(score1, F_0_2)
                  ELSE IF PyIn(<<"S","m","a","l","l"," ","B","u","s","i","n","e","s","s">>, "Small Business", set_aside)
                  THEN FAdd(score1, F_0_1)
                  ELSE score1
        score3 == FAdd(score2, FMin(F_0_2, FMulInt(keyword_matches, F_0_05)))
    IN  FMin(F_1_0, score3)

(***************************************************************************)
(* main.py: GET /opportunities.                                            *)
(***************************************************************************)
\* opp['matchScore'] = match_score
WithMatchScore(opp) ==
    Dict([ k \in DOMAIN opp.d \cup {"matchScore"} |->
             IF k = "matchScore" THEN Float(calculate_basic_match_score(opp))
             ELSE opp.d[k] ])

MatchScoreOf(opp) == opp.d["matchScore"].f

\* a variant that puts an element before the earlier elements of equal key
RECURSIVE InsertByScore_unstable(_, _)
InsertByScore_unstable(sorted, x) ==
    IF sorted = <<>> THEN <<x>>
    ELSE IF FLeq(MatchScoreOf(Head(sorted)), MatchScoreOf(x)) THEN <<x>> \o sorted
    ELSE <<Head(sorted)>> \o InsertByScore_unstable(Tail(sorted), x)

\* list.sort(key=..., reverse=True): stable, so an element goes after the
\* elements before it in the list whose key is not smaller
RECURSIVE InsertByScore(_, _)
InsertByScore(sorted, x) ==
    IF sorted = <<>> THEN <<x>>
    ELSE IF FLess(MatchScoreOf(Head(sorted)), MatchScoreOf(x)) THEN <<x>> \o sorted
    ELSE <<Head(sorted)>> \o InsertByScore(Tail(sorted), x)

RECURSIVE SortByMatchScore(_)
SortByMatchScore(opps) ==
    IF opps = <<>> THEN <<>>
    ELSE InsertByScore(SortByMatchScore(SubSeq(opps, 1, Len(opps) - 1)),
                       opps[Len(opps)])

\* the index of the first opportunity whose scoring raises, or 0
FirstScoreRaise(opportunities) ==
    LET bad == { i \in DOMAIN opportunities :
                   calculate_basic_match_score_raises(opportunities[i]) }
    IN  IF bad = {} THEN 0 ELSE CHOOSE i \in bad : \A j \in bad : i <= j

\* the handler's response to the list the fetcher returned
get_opportunities(opportunities, query) ==
    IF FirstScoreRaise(opportunities) # 0
    THEN [status |-> 500, detail |-> "Failed to fetch opportunities"]
    ELSE LET enhanced_opportunities ==
                 SortByMatchScore([ i \in DOMAIN opportunities |->
                                      WithMatchScore(opportunities[i]) ])
         IN  [status |-> 200,
              opportunities |-> enhanced_opportunities,
              total |-> Len(enhanced_opportunities),
              filters_applied |-> query]

\* the dicts of the fetched list after the handler ran: the ones scored
\* before a raise carry their matchScore
AfterHandler(opportunities) ==
    LET n == FirstScoreRaise(opportunities)
    IN  [ i \in DOMAIN opportunities |->
            IF n = 0 \/ i < n THEN WithMatchScore(opportunities[i])
            ELSE opportunities[i] ]

(***************************************************************************)
(* summarizer.py: analyze_rfp_enhanced.  The completion service is a black *)
(* box whose outcome is an input:                                          *)
(*   [kind |-> "error", msg |-> m]     the call raised, str(e) = m         *)
(*   [kind |-> "none"]                 a reply whose content is None       *)
(*   [kind |-> "text"]                 a reply json.loads cannot decode    *)
(*   [kind |-> "json", v |-> value]    a reply json.loads decodes to value *)
(***************************************************************************)
UnableToAnalyze == Str(<<"U","n","a","b","l","e"," ","t","o"," ","a","n","a","l","y","z","e">>)
CheckBackLater == Str(<<"C","h","e","c","k"," ","b","a","c","k"," ","l","a","t","e","r">>)

\* the dict of `except json.JSONDecodeError`
ParseFailedResult ==
    Dict([
      error |-> Str(<<"F","a","i","l","e","d"," ","t","o"," ","p","a","r","s","e"," ","A","I"," ","r","e","s","p","o","n","s","e">>),
      executive_summary |-> Str(<<"A","n","a","l","y","s","i","s"," ","f","a","i","l","e","d"," ","-"," ","i","n","v","a","l","i","d"," ","r","e","s","p","o","n","s","e"," ","f","o","r","m","a","t">>),
      key_requirements |-> List(<<UnableToAnalyze>>),
      technical_requirements |-> List(<<UnableToAnalyze>>),
      evaluation_criteria |-> List(<<UnableToAnalyze>>),
      compliance_requirements |-> List(<<UnableToAnalyze>>),
      competitive_landscape |-> Str(<<"U","n","a","b","l","e"," ","t","o"," ","a","s","s","e","s","s">>),
      win_probability |-> Dict([ score |-> Str(<<"U","n","k","n","o","w","n">>),
                                 reasoning |-> Str(<<"A","n","a","l","y","s","i","s"," ","f","a","i","l","e","d">>) ]),
      recommended_actions |-> List(<<Str(<<"R","e","t","r","y"," ","a","n","a","l","y","s","i","s">>)>>),
      risk_factors |-> List(<<Str(<<"A","n","a","l","y","s","i","s"," ","i","n","c","o","m","p","l","e","t","e">>)>>),
      timeline_analysis |-> UnableToAnalyze,
      budget_considerations |-> UnableToAnalyze ])

\* the dict of `except Exception as e`, msg: str(e)
UnavailableResult(msg) ==
    Dict([
      error |-> Str(<<"A","n","a","l","y","s","i","s"," ","f","a","i","l","e","d",":"," ">> \o msg),
      executive_summary |-> Str(<<"A","n","a","l","y","s","i","s"," ","t","e","m","p","o","r","a","r","i","l","y"," ","u","n","a","v","a","i","l","a","b","l","e">>),
      key_requirements |-> List(<<CheckBackLater>>),
      technical_requirements |-> List(<<CheckBackLater>>),
      evaluation_criteria |-> List(<<CheckBackLater>>),
      compliance_requirements |-> List(<<CheckBackLater>>),
      competitive_landscape |-> Str(<<"U","n","a","b","l","e"," ","t","o"," ","a","s","s","e","s","s">>),
      win_probability |-> Dict([ score |-> Str(<<"U","n","k","n","o","w","n">>),
                                 reasoning |-> Str(<<"S","e","r","v","i","c","e"," ","u","n","a","v","a","i","l","a","b","l","e">>) ]),
      recommended_actions |-> List(<<Str(<<"T","r","y"," ","a","g","a","i","n"," ","l","a","t","e","r">>)>>),
      risk_factors |-> List(<<Str(<<"S","e","r","v","i","c","e"," ","i","n","t","e","r","r","u","p","t","i","o","n">>)>>),
      timeline_analysis |-> UnableToAnalyze,
      budget_considerations |-> UnableToAnalyze ])

\* str(e) of the TypeError that result["analysis_date"] = ... raises when
\* result is not a dict
ItemAssignmentError(v) ==
    CASE v.t = "list" -> <<"l","i","s","t"," ","i","n","d","i","c","e","s"," ","m","u","s","t"," ","b","e"," ","i","n","t","e","g","e","r","s"," ","o","r"," ","s","l","i","c","e","s",","," ","n","o","t"," ","s","t","r">>
      [] v.t = "str" -> <<"'","s","t","r","'"," ","o","b","j","e","c","t"," ","d","o","e","s"," ","n","o","t"," ","s","u","p","p","o","r","t"," ","i","t","e","m"," ","a","s","s","i","g","n","m","e","n","t">>
      [] v.t = "num" -> <<"'","i","n","t","'"," ","o","b","j","e","c","t"," ","d","o","e","s"," ","n","o","t"," ","s","u","p","p","o","r","t"," ","i","t","e","m"," ","a","s","s","i","g","n","m","e","n","t">>
      [] v.t = "null" -> <<"'","N","o","n","e","T","y","p","e","'"," ","o","b","j","e","c","t"," ","d","o","e","s"," ","n","o","t"," ","s","u","p","p","o","r","t"," ","i","t","e","m"," ","a","s","s","i","g","n","m","e","n","t">>
      [] v.t = "float" -> <<"'","f","l","o","a","t","'"," ","o","b","j","e","c","t"," ","d","o","e","s"," ","n","o","t"," ","s","u","p","p","o","r","t"," ","i","t","e","m"," ","a","s","s","i","g","n","m","e","n","t">>

\* the prompt is built before the try: opportunity_data.get of a truthy
\* value that is not a dict, and rfp_text[:8000] of a truthy value that
\* cannot be sliced, raise out of the function
analyze_rfp_enhanced_raises(rfp_text, opportunity_data) ==
    \/ Truthy(opportunity_data) /\ ~IsDict(opportunity_data)
    \/ Truthy(rfp_text) /\ rfp_text.t \notin {"str", "list"}

\* t: the day datetime.now() reads after the completion returned
analyze_rfp_enhanced(rfp_text, opportunity_data, completion, t) ==
    CASE completion.kind = "error" -> UnavailableResult(completion.msg)
      [] completion.kind = "none" ->
            UnavailableResult(<<"t","h","e"," ","J","S","O","N"," ","o","b","j","e","c","t"," ","m","u","s","t"," ","b","e"," ","s","t","r",","," ","b","y","t","e","s"," ","o","r"," ","b","y","t","e","a","r","r","a","y",","," ","n","o","t"," ","N","o","n","e","T","y","p","e">>)
      [] completion.kind = "text" -> ParseFailedResult
      [] completion.kind = "json" ->
            LET result == completion.v
            IN  IF ~IsDict(result) THEN UnavailableResult(ItemAssignmentError(result))
                ELSE Dict([ k \in DOMAIN result.d \cup {"analysis_date", "opportunity_id"} |->
                              CASE k = "analysis_date" -> Str(IsoFormat(t))
                                [] k = "opportunity_id" ->
                                      IF Truthy(opportunity_data)
                                      THEN Get(opportunity_data, "id", Null)
                                      ELSE Null
                                [] OTHER -> result.d[k] ])

(***************************************************************************)
(* main.py: POST /analyze.  request: the JSON object of the body.          *)
(***************************************************************************)
\* the HTTPException(400) is raised inside the try, and `except Exception`
\* catches it as it catches anything analyze_rfp_enhanced raises
analyze_opportunity_raises(request) ==
    LET rfp_text == Get(request, "rfp_text", EmptyStr)
        opportunity_data == Get(request, "opportunity_data", EmptyDict)
    IN  IF ~Truthy(rfp_text) /\ ~Truthy(opportunity_data) THEN "HTTPException(400)"
        ELSE IF analyze_rfp_enhanced_raises(rfp_text, opportunity_data) THEN "Exception"
        ELSE "no"

\* whether the handler reaches client.chat.completions.acreate
CompletionCalled(request) == analyze_opportunity_raises(request) = "no"

analyze_opportunity(request, completion, t) ==
    LET rfp_text == Get(request, "rfp_text", EmptyStr)
        opportunity_data == Get(request, "opportunity_data", EmptyDict)
    IN  IF analyze_opportunity_raises(request) # "no"
        THEN [status |-> 500, detail |-> "Analysis failed",
              cause |-> analyze_opportunity_raises(request)]
        ELSE [status |-> 200,
              body |-> analyze_rfp_enhanced(rfp_text, opportunity_data, completion, t)]

(***************************************************************************)
(* The inputs.  Upstream records as SAM.gov sends them; each of the first  *)
(* four normalizes to an opportunity of the data model, with the scores    *)
(* 0.9, 0.6, 0.75 and 0.6.  A record whose award is null and a record      *)
(* whose naicsCode is a number stand for the malformed records.            *)
(***************************************************************************)
RecordA ==
    Dict([ noticeId |-> Str(<<"N","-","A">>), title |-> Str(<<"H","e","l","p"," ","d","e","s","k"," ","s","u","p","p","o","r","t">>),
           departmentName |-> Str(<<"D","e","p","t"," ","o","f"," ","V","A">>), naicsCode |-> Str(<<"5","4","1","5","1","2">>),
           typeOfSetAside |-> Str(<<"T","o","t","a","l"," ","S","m","a","l","l"," ","B","u","s","i","n","e","s","s">>) ])

RecordB ==
    Dict([ noticeId |-> Str(<<"N","-","B">>), title |-> Str(<<"J","a","n","i","t","o","r","i","a","l">>),
           departmentName |-> Str(<<"N","A","S","A">>), naicsCode |-> Str(<<"5","6","1","7","2","0">>),
           typeOfSetAside |-> Str(<<"S","m","a","l","l"," ","B","u","s","i","n","e","s","s">>) ])

RecordC ==
    Dict([ noticeId |-> Str(<<"N","-","C">>), title |-> Str(<<"C","l","o","u","d"," ","h","o","s","t","i","n","g">>),
           naicsCode |-> Str(<<"5","4","1","6","9","0">>), typeOfSetAside |-> Str(<<"S","D","V","O","S","B">>) ])

RecordD ==
    Dict([ noticeId |-> Str(<<"N","-","D">>), title |-> Str(<<"D","i","g","i","t","a","l"," "," ","t","w","i","n">>),
           departmentName |-> Str(<<"N","a","v","y">>),
           description |-> Str(<<"C","l","o","u","d"," ","&","a","m","p",";"," ","e","d","g","e">>) ])

RecordNullAward ==
    Dict([ noticeId |-> Str(<<"N","-","G">>), title |-> Str(<<"C","l","o","u","d"," ","h","o","s","t","i","n","g">>),
           departmentName |-> Str(<<"D","e","p","t"," ","o","f"," ","V","A">>), award |-> Null ])

RecordIntNaics ==
    Dict([ noticeId |-> Str(<<"N","-","H">>), title |-> Str(<<"H","e","l","p"," ","d","e","s","k"," ","s","u","p","p","o","r","t">>),
           departmentName |-> Str(<<"D","e","p","t"," ","o","f"," ","V","A">>), naicsCode |-> Num(<<"5","4","1","5","1","2">>) ])

CoreRecords ==
    {RecordA, RecordB, RecordC, RecordD, RecordNullAward, RecordIntNaics}

\* the lists of at most n records of S, no notice twice
RECURSIVE SeqsUpTo(_, _)
SeqsUpTo(S, n) ==
    IF n = 0 THEN {<<>>}
    ELSE LET shorter == SeqsUpTo(S, n - 1)
         IN  shorter \cup UNION { { Append(l, x) : x \in S \ Range(l) } : l \in shorter }

\* what the upstream answers to one request
Upstreams ==
    { [kind |-> "network_error"], [kind |-> "bad_body"],
      [kind |-> "status", code |-> 403], [kind |-> "status", code |-> 500],
      [kind |-> "ok", data |-> List(<<>>)],
      [kind |-> "ok", data |-> EmptyDict],
      [kind |-> "ok", data |-> Dict([opportunitiesData |-> Null])] }
    \cup { [kind |-> "ok", data |-> Dict([opportunitiesData |-> List(l)])] :
             l \in SeqsUpTo(CoreRecords, MaxRecords) }

\* the agency query parameter: absent, empty, or a text
AgencyFilters == {Null, EmptyStr, Str(<<"v","a">>), Str(<<"N","A","S","A">>)}

\* the SAM_API_KEY of the environment: unset, or set
ApiKeys == {Null, Str(<<"k","e","y">>)}

\* the bodies of POST /analyze
RfpTexts == {Null, EmptyStr, Str(<<"S","t","a","t","e","m","e","n","t"," ","o","f"," ","w","o","r","k">>)}

OpportunityDatas ==
    { Null, EmptyDict,
      Dict([id |-> Str(<<"N","-","A">>), title |-> Str(<<"H","e","l","p"," ","d","e","s","k"," ","s","u","p","p","o","r","t">>)]),
      Dict([title |-> Str(<<"H","e","l","p"," ","d","e","s","k"," ","s","u","p","p","o","r","t">>)]),
      Str(<<"N","-","A">>) }

AnalyzeRequests ==
    { EmptyDict }
    \cup { Dict([rfp_text |-> r]) : r \in RfpTexts }
    \cup { Dict([opportunity_data |-> o]) : o \in OpportunityDatas }
    \cup { Dict([rfp_text |-> r, opportunity_data |-> o]) :
             r \in RfpTexts, o \in OpportunityDatas }

\* a reply holding every key the prompt asks for
FullAnalysis ==
    Dict([
      executive_summary |-> Str(<<"G","o","o","d"," ","f","i","t">>),
      key_requirements |-> List(<<Str(<<"C","l","e","a","r","a","n","c","e">>)>>),
      technical_requirements |-> List(<<>>),
      evaluation_criteria |-> List(<<>>),
      compliance_requirements |-> List(<<>>),
      competitive_landscape |-> Str(<<"C","r","o","w","d","e","d">>),
      win_probability |-> Dict([ score |-> Str(<<"H","i","g","h">>), reasoning |-> Str(<<"F","i","t">>) ]),
      recommended_actions |-> List(<<Str(<<"B","i","d">>)>>),
      risk_factors |-> List(<<>>),
      timeline_analysis |-> Str(<<"T","i","g","h","t">>),
      budget_considerations |-> Str(<<"F","a","i","r">>) ])

Completions ==
    { [kind |-> "error", msg |-> <<"C","o","n","n","e","c","t","i","o","n"," ","e","r","r","o","r",".">>],
      [kind |-> "none"], [kind |-> "text"] }
    \cup { [kind |-> "json", v |-> v] :
             v \in { FullAnalysis, EmptyDict,
                     Dict([executive_summary |-> Str(<<"G","o","o","d"," ","f","i","t">>)]),
                     List(<<>>), Str(<<"G","o","o","d"," ","f","i","t">>), Num(<<"4","2">>), Null } }

(***************************************************************************)
(* The service: one request at a time, from its arrival to its response.   *)
(*   pc         "idle", or the handler whose response is in resp           *)
(*   now        the day the clock reads                                    *)
(*   api_key    sam_client.api_key                                         *)
(*   req, resp  the request being answered and its response                *)
(*   fetched    the list fetch_opportunities returned to the handler       *)
(*   held       the dicts the last fallback list was made of, as the       *)
(*              handler that received them left them                       *)
(*   llmCalled  whether the request reached the completion service         *)
(***************************************************************************)
Init ==
    /\ pc = "idle"
    /\ now = 0
    /\ api_key \in ApiKeys
    /\ req = Null
    /\ resp = Null
    /\ fetched = <<>>
    /\ held = <<>>
    /\ llmCalled = FALSE

\* without a key the request is refused before it is sent
UpstreamsOf(key) == IF key = Null THEN { [kind |-> "not_sent"] } ELSE Upstreams

\* GET /opportunities: fetch, score every record, sort, respond
GetOpportunities ==
    /\ pc = "idle"
    /\ \E agency \in AgencyFilters, upstream \in UpstreamsOf(api_key) :
         LET opportunities == fetch_opportunities(api_key, agency, upstream, now)
         IN  /\ req' = [agency |-> agency, upstream |-> upstream]
             /\ fetched' = opportunities
             /\ resp' = get_opportunities(opportunities, [agency |-> agency])
    /\ pc' = "opportunities"
    /\ UNCHANGED <<now, api_key, held, llmCalled>>

\* POST /analyze: the completion, when it is called, takes up to a day
AnalyzeOpportunity ==
    /\ pc = "idle"
    /\ \E request \in AnalyzeRequests :
         IF CompletionCalled(request)
         THEN \E completion \in Completions, t \in now .. now + 1 :
                 /\ t <= MaxTime
                 /\ now' = t
                 /\ req' = [request |-> request, completion |-> completion, start |-> now]
                 /\ resp' = analyze_opportunity(request, completion, t)
                 /\ llmCalled' = TRUE
         ELSE /\ now' = now
              /\ req' = [request |-> request, completion |-> [kind |-> "not_called"],
                         start |-> now]
              /\ resp' = analyze_opportunity(request, [kind |-> "not_called"], now)
              /\ llmCalled' = FALSE
    /\ pc' = "analyze"
    /\ UNCHANGED <<api_key, fetched, held>>

\* the response is sent; the dicts of a fallback list stay as the handler
\* left them
Return ==
    /\ pc \in {"opportunities", "analyze"}
    /\ held' = IF pc = "opportunities" /\ FetchFallsBack(api_key, req.upstream)
               THEN AfterHandler(fetched) ELSE held
    /\ pc' = "idle"
    /\ req' = Null
    /\ resp' = Null
    /\ fetched' = <<>>
    /\ llmCalled' = FALSE
    /\ UNCHANGED <<now, api_key>>

\* a day passes between two requests
Tick ==
    /\ pc = "idle"
    /\ now < MaxTime
    /\ now' = now + 1
    /\ UNCHANGED <<pc, api_key, req, resp, fetched, held, llmCalled>>

Next == GetOpportunities \/ AnalyzeOpportunity \/ Return \/ Tick

Spec == Init /\ [][Next]_vars

(***************************************************************************)
(* Normalization alone: _parse_opportunities applied to one upstream       *)
(* record from which a set of fields is missing.  A field is named by its  *)
(* path in the record.                                                      *)
(***************************************************************************)
TopFields ==
    { "noticeId", "solicitationNumber", "title", "departmentName", "subTier",
      "naicsCode", "naicsCodeDescription", "typeOfSetAside", "responseDeadLine",
      "postedDate", "award", "estimatedValue", "baseAndAllOptionsValue",
      "placeOfPerformance", "description", "uiLink", "noticeType",
      "pointOfContact", "classificationCode", "organizationType", "state" }

TopPaths == [ k \in TopFields |-> k ]
AwardPaths == [ amount |-> "award.amount" ]
PlacePaths == [ city |-> "placeOfPerformance.city", state |-> "placeOfPerformance.state" ]
CityPaths == [ name |-> "placeOfPerformance.city.name", code |-> "placeOfPerformance.city.code" ]
StatePaths == [ name |-> "placeOfPerformance.state.name" ]
ContactPaths == [ fullName |-> "pointOfContact.fullName", email |-> "pointOfContact.email",
                  phone |-> "pointOfContact.phone" ]

UpstreamFields ==
    TopFields \cup Range(AwardPaths) \cup Range(PlacePaths) \cup Range(CityPaths)
        \cup Range(StatePaths) \cup Range(ContactPaths)

\* two complete upstream records, every field of the type SAM.gov sends
CompleteRecords ==
    << [ top |-> [ noticeId |-> Str(<<"N","-","1">>),
                   solicitationNumber |-> Str(<<"3","6","C","1","0","G","2","4","R","0","0","2","9">>),
                   title |-> Str(<<"C","l","o","u","d"," ","&","a","m","p",";"," ","d","a","t","a"," "," ","s","e","r","v","i","c","e","s">>),
                   departmentName |-> Str(<<"D","e","p","t"," ","o","f"," ","V","A">>),
                   subTier |-> Str(<<"O","I","T">>),
                   naicsCode |-> Str(<<"5","4","1","5","1","2">>),
                   naicsCodeDescription |-> Str(<<"C","o","m","p","u","t","e","r"," ","S","y","s","t","e","m","s"," ","D","e","s","i","g","n">>),
                   typeOfSetAside |-> Str(<<"T","o","t","a","l"," ","S","m","a","l","l"," ","B","u","s","i","n","e","s","s">>),
                   responseDeadLine |-> Str(<<"2","0","2","5","-","0","1","-","3","1">>),
                   postedDate |-> Str(<<"2","0","2","5","-","0","1","-","0","1">>),
                   estimatedValue |-> Str(<<"$","2",",","0","0","0">>),
                   baseAndAllOptionsValue |-> Num(<<"7","5","0">>),
                   description |-> Str(<<"B","u","d","g","e","t"," ","o","f"," ","$","5"," ","m","i","l","l","i","o","n">>),
                   uiLink |-> Str(<<"h","t","t","p","s",":","/","/","s","a","m",".","g","o","v","/","1">>),
                   noticeType |-> Str(<<"S","o","l","i","c","i","t","a","t","i","o","n">>),
                   classificationCode |-> Str(<<"R">>),
                   organizationType |-> Str(<<"O","F","F","I","C","E">>),
                   state |-> Str(<<"V","A">>) ],
         award |-> [ amount |-> Num(<<"1","5","0","0","0","0","0">>) ],
         city |-> Dict([ name |-> Str(<<"R","e","s","t","o","n">>), code |-> Str(<<"6","6","6","7","2">>) ]),
         state |-> [ name |-> Str(<<"V","A">>) ],
         contact |-> [ fullName |-> Str(<<"S","a","r","a","h"," "," ","J","o","h","n","s","o","n">>),
                       email |-> Str(<<"s",".","j","@","v","a",".","g","o","v">>),
                       phone |-> Str(<<"2","0","2","-","5","5","5","-","0","1","2","3">>) ] ],
       [ top |-> [ noticeId |-> Str(<<"N","-","2">>),
                   solicitationNumber |-> Str(<<"7","0","R","S","A","T","2","5","R","1">>),
                   title |-> Str(<<" ","R","o","a","d"," ","r","e","p","a","i","r"," ">>),
                   departmentName |-> Str(<<"N","A","S","A">>),
                   subTier |-> Str(<<"G","o","d","d","a","r","d">>),
                   naicsCode |-> Str(<<"2","3","7","3","1","0">>),
                   naicsCodeDescription |-> Str(<<"H","i","g","h","w","a","y"," ","c","o","n","s","t","r","u","c","t","i","o","n">>),
                   typeOfSetAside |-> Str(<<"8","(","a",")"," ","S","o","l","e"," ","S","o","u","r","c","e">>),
                   responseDeadLine |-> Str(<<"2","0","2","5","-","0","2","-","2","8">>),
                   postedDate |-> Str(<<"2","0","2","5","-","0","2","-","0","1">>),
                   estimatedValue |-> Str(<<"T","B","D">>),
                   baseAndAllOptionsValue |-> Str(<<"$","1",",","2","5","0",",","0","0","0",".","0","0">>),
                   description |-> Str(<<"R","e","s","u","r","f","a","c","i","n","g">>),
                   uiLink |-> Str(<<"h","t","t","p","s",":","/","/","s","a","m",".","g","o","v","/","2">>),
                   noticeType |-> Str(<<"P","r","e","s","o","l","i","c","i","t","a","t","i","o","n">>),
                   classificationCode |-> Str(<<"Z">>),
                   organizationType |-> Str(<<"O","F","F","I","C","E">>),
                   state |-> Str(<<"M","D">>) ],
         award |-> [ amount |-> Num(<<"0">>) ],
         city |-> Str(<<"G","r","e","e","n","b","e","l","t">>),
         state |-> [ name |-> Str(<<"M","D">>) ],
         contact |-> [ fullName |-> Str(<<"M","i","c","h","a","e","l"," ","C","h","e","n">>),
                       email |-> Str(<<"m",".","c","@","n","a","s","a",".","g","o","v">>),
                       phone |-> Str(<<"1","-","3","0","1","-","5","5","5","-","0","4","5","6">>) ] ] >>

\* the dict of the entries of f whose path is not missing
Sub(f, paths, missing) ==
    Dict([ k \in { x \in DOMAIN f : paths[x] \notin missing } |-> f[k] ])

\* the complete record `base` without the fields of `missing`
RawRecord(base, missing) ==
    LET city == IF IsDict(base.city) THEN Sub(base.city.d, CityPaths, missing)
                ELSE base.city
        place == Sub([ city |-> city, state |-> Sub(base.state, StatePaths, missing) ],
                     PlacePaths, missing)
        nested == [ award |-> Sub(base.award, AwardPaths, missing),
                    placeOfPerformance |-> place,
                    pointOfContact |-> List(<<Sub(base.contact, ContactPaths, missing)>>) ]
    IN  Sub([ k \in TopFields |-> IF k \in DOMAIN nested THEN nested[k] ELSE base.top[k] ],
            TopPaths, missing)

RECURSIVE SubsetsUpTo(_, _)
SubsetsUpTo(S, n) ==
    IF n = 0 THEN {{}}
    ELSE LET smaller == SubsetsUpTo(S, n - 1)
         IN  smaller \cup { T \cup {x} : T \in smaller, x \in S }

\* few fields missing, or few fields present
MissingSets ==
    SubsetsUpTo(UpstreamFields, MaxMissing)
        \cup { UpstreamFields \ T : T \in SubsetsUpTo(UpstreamFields, MaxMissing) }

InitNormalize ==
    /\ pc = "raw"
    /\ req \in { [base |-> b, missing |-> m] : b \in DOMAIN CompleteRecords, m \in MissingSets }
    /\ resp = Null
    /\ now = 0
    /\ api_key = Null
    /\ fetched = <<>>
    /\ held = <<>>
    /\ llmCalled = FALSE

\* _parse_opportunities([record])
Normalize ==
    /\ pc = "raw"
    /\ LET raw_data == <<RawRecord(CompleteRecords[req.base], req.missing)>>
       IN  resp' = IF _parse_opportunities_raises(raw_data) THEN [raised |-> TRUE]
                   ELSE [raised |-> FALSE, opportunities |-> _parse_opportunities(raw_data)]
    /\ pc' = "normalized"
    /\ UNCHANGED <<now, api_key, req, fetched, held, llmCalled>>

NextNormalize == Normalize

SpecNormalize == InitNormalize /\ [][NextNormalize]_vars

(***************************************************************************)
(* Scoring alone: calculate_basic_match_score applied to one opportunity   *)
(* of the data model.                                                       *)
(***************************************************************************)
ScoreNaics ==
    { <<>>, <<"5","4","1","5","1","2">>, <<"5","4","1","5","1","2","0">>, <<"5","4","1","5","1","1">>, <<"5","1","8","2","1","0">>, <<"5","4","1","6","9","0">>,
      <<"5","4","1","5","1">>, <<"0","5","4","1","5","1","2">> }

ScoreSetAsides ==
    { <<>>, <<"S","D","V","O","S","B">>, <<"S","e","r","v","i","c","e","-","D","i","s","a","b","l","e","d"," ","V","e","t","e","r","a","n","-","O","w","n","e","d">>, <<"S","m","a","l","l"," ","B","u","s","i","n","e","s","s">>,
      <<"S","D","V","O","S","B"," ","S","m","a","l","l"," ","B","u","s","i","n","e","s","s">>, <<"s","m","a","l","l"," ","b","u","s","i","n","e","s","s">>, <<"s","d","v","o","s","b">>, <<"W","O","S","B">>,
      <<"O","p","e","n"," ","C","o","m","p","e","t","i","t","i","o","n">> }

ScoreTitles ==
    { <<>>, <<"C","l","o","u","d">>, <<"c","l","o">>, <<"D","i","g","i","t","a","l"," ","C","y","b","e","r","s","e","c","u","r","i","t","y">>, <<"I","T"," ","s","u","p","p","o","r","t">> }

ScoreDescriptions ==
    { <<>>, <<"u","d">>, <<"c","l","o","u","d">>, <<"m","o","d","e","r","n","i","z","a","t","i","o","n"," ","o","f"," ","i","n","f","r","a","s","t","r","u","c","t","u","r","e">>,
      <<"d","i","g","i","t","a","l"," ","c","l","o","u","d"," ","c","y","b","e","r","s","e","c","u","r","i","t","y"," ","i","n","f","r","a","s","t","r","u","c","t","u","r","e"," ","m","o","d","e","r","n","i","z","a","t","i","o","n">>,
      <<"C","l","o","u","d","y"," ","d","i","g","i","t","a","l"," ","c","l","o","u","d","s">> }

ScoreInputs ==
    { Dict([ naics |-> Str(n), setAsideType |-> Str(s), title |-> Str(ti),
             description |-> Str(d) ]) :
        n \in ScoreNaics, s \in ScoreSetAsides, ti \in ScoreTitles,
        d \in ScoreDescriptions }

InitScore ==
    /\ pc = "unscored"
    /\ req \in ScoreInputs
    /\ resp = Null
    /\ now = 0
    /\ api_key = Null
    /\ fetched = <<>>
    /\ held = <<>>
    /\ llmCalled = FALSE

\* calculate_basic_match_score(opportunity)
Score ==
    /\ pc = "unscored"
    /\ resp' = Float(calculate_basic_match_score(req))
    /\ pc' = "scored"
    /\ UNCHANGED <<now, api_key, req, fetched, held, llmCalled>>

NextScore == Score

SpecScore == InitScore /\ [][NextScore]_vars

(***************************************************************************)
(* The claims.  The data model of an opportunity first.                    *)
(***************************************************************************)
StringFields ==
    { "id", "title", "agency", "office", "solicitationNumber", "naics",
      "naicsDescription", "setAsideType", "dueDate", "postedDate",
      "estimatedValue", "placeOfPerformance", "description", "url", "type" }
ContactFields == { "name", "email", "phone" }
AdditionalFields == { "classificationCode", "organizationType", "state" }

\* every field of the data model is present and is a string
IsOpportunity(o) ==
    /\ IsDict(o)
    /\ StringFields \cup {"contactInfo", "additionalInfo"} \subseteq DOMAIN o.d
    /\ \A k \in StringFields : IsStr(o.d[k])
    /\ IsDict(o.d.contactInfo) /\ ContactFields \subseteq DOMAIN o.d.contactInfo.d
    /\ \A k \in ContactFields : IsStr(o.d.contactInfo.d[k])
    /\ IsDict(o.d.additionalInfo) /\ AdditionalFields \subseteq DOMAIN o.d.additionalInfo.d
    /\ \A k \in AdditionalFields : IsStr(o.d.additionalInfo.d[k])

\* the keys of an AnalysisResult
AnalysisKeys ==
    { "executive_summary", "key_requirements", "technical_requirements",
      "evaluation_criteria", "compliance_requirements", "competitive_landscape",
      "win_probability", "recommended_actions", "risk_factors",
      "timeline_analysis", "budget_considerations" }

\* both inputs of a POST /analyze body are absent or empty
BothEmpty(request) ==
    /\ Get(request, "rfp_text", EmptyStr) = EmptyStr
    /\ Get(request, "opportunity_data", EmptyDict) = EmptyDict

\* C1: every POST /analyze whose rfp_text and opportunity_data are both
\* absent or empty is answered with a 400 client error, never with a 500 or
\* a placeholder, and the completion service is not called.
C1_ValidationError ==
    (pc = "analyze" /\ BothEmpty(req.request))
        => (resp.status = 400 /\ ~llmCalled)

\* C2: GET /opportunities answers every upstream outcome, a 200 response
\* with records of any shape included, with an opportunities response and
\* never with an error response.
C2_AlwaysSucceeds ==
    pc = "opportunities" => resp.status = 200

\* the completion returned a text that is not an AnalysisResult: not JSON,
\* JSON that is not an object, or an object without all eleven keys
Unparseable(completion) ==
    \/ completion.kind = "text"
    \/ /\ completion.kind = "json"
       /\ \/ ~IsDict(completion.v)
          \/ ~(AnalysisKeys \subseteq DOMAIN completion.v.d)

\* C3: when the completion call succeeds and its text cannot be parsed into
\* the eleven-key AnalysisResult, the analysis is the parse-failed
\* placeholder: all eleven keys, win_probability.score "Unknown", and the
\* error "Failed to parse AI response".
C3_ParseFailedPlaceholder ==
    (pc = "analyze" /\ llmCalled /\ Unparseable(req.completion))
        => /\ resp.status = 200
           /\ IsDict(resp.body)
           /\ AnalysisKeys \subseteq DOMAIN resp.body.d
           /\ Get(resp.body, "error", Null) = ParseFailedResult.d.error
           /\ resp.body.d.win_probability.d.score = Str(<<"U","n","k","n","o","w","n">>)

\* C4: the placeholder of either failure (a completion text that is not
\* JSON, a completion call that failed) carries analysis_date, a time from
\* the start of the call on, and opportunity_id, the id of the context when
\* one was given and null otherwise.
C4_PlaceholderMetadata ==
    (pc = "analyze" /\ llmCalled /\ req.completion.kind \in {"text", "error"})
        => /\ resp.status = 200
           /\ {"analysis_date", "opportunity_id"} \subseteq DOMAIN resp.body.d
           /\ \E t \in req.start .. now : resp.body.d.analysis_date = Str(IsoFormat(t))
           /\ resp.body.d.opportunity_id =
                 Get(Get(req.request, "opportunity_data", EmptyDict), "id", Null)

\* the failures C5 names: no API key, a network error, a status that is not
\* 200
FetchFailed ==
    api_key = Null \/ req.upstream.kind \in {"network_error", "status"}

\* the fields of a fallback record that do not depend on the day of the call
StaticKeys(opp) == DOMAIN opp.d \ {"dueDate", "postedDate"}

\* C5: a fetch that fails returns exactly two fresh records, fallback-1 and
\* fallback-2, with no matchScore, whatever the handlers did to the records
\* of earlier calls: the same content as every earlier failing call in
\* every field but dueDate and postedDate, which are counted from the day
\* of the call.
C5_FallbackFresh ==
    (pc = "opportunities" /\ FetchFailed)
        => /\ Len(fetched) = 2
           /\ fetched[1].d.id = Str(<<"f","a","l","l","b","a","c","k","-","1">>)
           /\ fetched[2].d.id = Str(<<"f","a","l","l","b","a","c","k","-","2">>)
           /\ \A i \in 1..2 : "matchScore" \notin DOMAIN fetched[i].d
           /\ fetched = FallbackRecords(now)
           /\ held # <<>> =>
                 \A i \in 1..2 : \A k \in StaticKeys(fetched[i]) :
                     fetched[i].d[k] = held[i].d[k]

\* C5 as stated: every field of the two records is the same in every
\* failing call.
C5_SameContent ==
    (pc = "opportunities" /\ FetchFailed /\ held # <<>>)
        => /\ Len(fetched) = 2
           /\ \A i \in 1..2 : \A k \in DOMAIN fetched[i].d :
                  fetched[i].d[k] = held[i].d[k]

\* a failing call on a later day than an earlier failing call whose records
\* the handler gave a matchScore
C5_Witness ==
    /\ pc = "opportunities" /\ FetchFailed
    /\ held # <<>>
    /\ "matchScore" \in DOMAIN held[1].d
    /\ held[1].d.dueDate # fetched[1].d.dueDate
    /\ resp.status = 200

\* the upstream answered 200 with a list of records under opportunitiesData
RecordsSent ==
    IF /\ api_key # Null
       /\ req.upstream.kind = "ok"
       /\ IsDict(req.upstream.data)
       /\ Get(req.upstream.data, "opportunitiesData", Null).t = "list"
    THEN req.upstream.data.d.opportunitiesData.l
    ELSE <<>>

\* C6: a 200 response of n records, some of them malformed, yields n
\* normalized opportunities, one per record, and not the fallback set.
C6_BatchSurvives ==
    (pc = "opportunities" /\ ~Truthy(req.agency) /\ RecordsSent # <<>>)
        => /\ Len(fetched) = Len(RecordsSent)
           /\ \A i \in DOMAIN fetched : fetched[i].d.id = RecordsSent[i].d.noticeId

\* the upstream field each plain string field is read from
FieldSource ==
    [ title |-> "title", agency |-> "departmentName", office |-> "subTier",
      solicitationNumber |-> "solicitationNumber", naics |-> "naicsCode",
      naicsDescription |-> "naicsCodeDescription", dueDate |-> "responseDeadLine",
      postedDate |-> "postedDate", description |-> "description",
      url |-> "uiLink", type |-> "noticeType" ]

\* C7: whichever upstream fields are missing from a record, normalization
\* yields an opportunity with every field of the data model present and a
\* string; a field whose sources are missing is "Open Competition"
\* (setAsideType), "Not specified" (estimatedValue, placeOfPerformance) or
\* the empty string (the rest).
C7_Complete ==
    pc = "normalized" =>
        /\ ~resp.raised
        /\ Len(resp.opportunities) = 1
        /\ LET o == resp.opportunities[1]
               m == req.missing
           IN  /\ IsOpportunity(o)
               /\ \A k \in DOMAIN FieldSource : FieldSource[k] \in m => o.d[k] = EmptyStr
               /\ {"noticeId", "solicitationNumber"} \subseteq m => o.d.id = EmptyStr
               /\ "typeOfSetAside" \in m => o.d.setAsideType = Str(<<"O","p","e","n"," ","C","o","m","p","e","t","i","t","i","o","n">>)
               /\ "placeOfPerformance" \in m => o.d.placeOfPerformance = Str(<<"N","o","t"," ","s","p","e","c","i","f","i","e","d">>)
               /\ ( /\ {"award", "award.amount"} \cap m # {}
                    /\ {"estimatedValue", "baseAndAllOptionsValue", "description"} \subseteq m )
                     => o.d.estimatedValue = Str(<<"N","o","t"," ","s","p","e","c","i","f","i","e","d">>)
               /\ \A k \in AdditionalFields : k \in m => o.d.additionalInfo.d[k] = EmptyStr
               /\ {"pointOfContact", "pointOfContact.fullName"} \cap m # {}
                     => o.d.contactInfo.d.name = EmptyStr
               /\ {"pointOfContact", "pointOfContact.email"} \cap m # {}
                     => o.d.contactInfo.d.email = EmptyStr
               /\ {"pointOfContact", "pointOfContact.phone"} \cap m # {}
                     => o.d.contactInfo.d.phone = EmptyStr

\* the record with every upstream field missing has been normalized
C7_Witness ==
    /\ pc = "normalized"
    /\ req.missing = UpstreamFields
    /\ ~resp.raised
    /\ resp.opportunities[1].d.setAsideType = Str(<<"O","p","e","n"," ","C","o","m","p","e","t","i","t","i","o","n">>)
    /\ resp.opportunities[1].d.estimatedValue = Str(<<"N","o","t"," ","s","p","e","c","i","f","i","e","d">>)
    /\ resp.opportunities[1].d.id = EmptyStr

\* the codes that earn the NAICS bonus
ITCodes == { <<"5","4","1","5","1","2">>, <<"5","4","1","5","1","1">>, <<"5","1","8","2","1","0">> }

\* min(1.0, 0.5 + N + S + K) in doubles, summed from the left, the keywords
\* counted in `text`
ScoreOf(opp, text) ==
    LET N == IF \E c \in ITCodes : StartsWith(opp.d.naics.s, c) THEN F_0_3 ELSE F_0_0
        S == IF \/ Contains(opp.d.setAsideType.s, <<"S","D","V","O","S","B">>)
                \/ Contains(opp.d.setAsideType.s, <<"S","e","r","v","i","c","e","-","D","i","s","a","b","l","e","d">>)
             THEN F_0_2
             ELSE IF Contains(opp.d.setAsideType.s, <<"S","m","a","l","l"," ","B","u","s","i","n","e","s","s">>)
             THEN F_0_1 ELSE F_0_0
        count == Cardinality({ w \in { <<"c","l","o","u","d">>, <<"c","y","b","e","r","s","e","c","u","r","i","t","y">>, <<"i","n","f","r","a","s","t","r","u","c","t","u","r","e">>,
                                       <<"m","o","d","e","r","n","i","z","a","t","i","o","n">>, <<"d","i","g","i","t","a","l">> } :
                                 Contains(text, w) })
        k == FMulInt(count, F_0_05)
        K == IF FLeq(F_0_2, k) THEN F_0_2 ELSE k
        sum == FAdd(FAdd(FAdd(F_0_5, N), S), K)
    IN  IF FLeq(F_1_0, sum) THEN F_1_0 ELSE sum

\* C8: the match score of an opportunity is min(1.0, 0.5 + N + S + K), the
\* keywords of K counted in the lower-cased text made of the title, one
\* space and the description; it lies in [0,1]; and putting a matching IT
\* code in the place of the NAICS code never lowers it.
C8_ScoreFormula ==
    pc = "scored" =>
        /\ resp.f = ScoreOf(req, Lower(req.d.title.s \o <<" ">> \o req.d.description.s))
        /\ FLeq(F_0_0, resp.f) /\ FLeq(resp.f, F_1_0)
        /\ \A c \in ITCodes :
               FLeq(resp.f,
                    calculate_basic_match_score(
                        Dict([req.d EXCEPT !.naics = Str(c)])))

\* C8 as stated: the keywords of K counted in the lower-cased title
\* followed at once by the description.
C8_Concatenated ==
    pc = "scored" =>
        resp.f = ScoreOf(req, Lower(req.d.title.s \o req.d.description.s))

\* every bonus applies, 0.5 + 0.3 + 0.2 + 0.2, and the score is 1.0
C8_Witness ==
    /\ pc = "scored"
    /\ req.d.naics = Str(<<"5","4","1","5","1","2">>)
    /\ req.d.setAsideType = Str(<<"S","D","V","O","S","B">>)
    /\ req.d.description = Str(<<"d","i","g","i","t","a","l"," ","c","l","o","u","d"," ","c","y","b","e","r","s","e","c","u","r","i","t","y"," ","i","n","f","r","a","s","t","r","u","c","t","u","r","e"," ","m","o","d","e","r","n","i","z","a","t","i","o","n">>)
    /\ resp.f = F_1_0

\* the one-to-one maps of 1..n onto itself
OneToOne(n) ==
    { p \in [1..n -> 1..n] : \A i, j \in 1..n : p[i] = p[j] => i = j }

\* C9: for a list of opportunities of the data model returned by the
\* fetcher, the response is that list permuted, every record with its
\* computed score as matchScore, in non-increasing matchScore order, equal
\* scores in fetch order, and total is the length of the list.
C9_StableDescending ==
    (pc = "opportunities" /\ \A i \in DOMAIN fetched : IsOpportunity(fetched[i]))
        => /\ resp.status = 200
           /\ resp.total = Len(fetched)
           /\ Len(resp.opportunities) = Len(fetched)
           /\ \E p \in OneToOne(Len(fetched)) :
                 /\ \A i \in DOMAIN fetched :
                       LET out == resp.opportunities[i]
                           opp == fetched[p[i]]
                       IN  /\ DOMAIN out.d = DOMAIN opp.d \cup {"matchScore"}
                           /\ \A k \in DOMAIN opp.d : out.d[k] = opp.d[k]
                           /\ out.d.matchScore = Float(calculate_basic_match_score(opp))
                 /\ \A i, j \in DOMAIN fetched :
                       i < j => /\ FLeq(resp.opportunities[j].d.matchScore.f,
                                        resp.opportunities[i].d.matchScore.f)
                                /\ resp.opportunities[j].d.matchScore =
                                       resp.opportunities[i].d.matchScore => p[i] < p[j]

\* records scored 0.6, 0.9, 0.75 and 0.6 by twos and threes: the list
\* fetched as N-B, N-A, N-C comes back as N-A, N-C, N-B
C9_Witness ==
    /\ pc = "opportunities"
    /\ Len(fetched) = 3
    /\ resp.status = 200
    /\ [ i \in 1..3 |-> fetched[i].d.id ] = <<Str(<<"N","-","B">>), Str(<<"N","-","A">>), Str(<<"N","-","C">>)>>
    /\ [ i \in 1..3 |-> resp.opportunities[i].d.id ] = <<Str(<<"N","-","A">>), Str(<<"N","-","C">>), Str(<<"N","-","B">>)>>
    /\ [ i \in 1..3 |-> resp.opportunities[i].d.matchScore.f ]
           = <<FAdd(FAdd(F_0_5, F_0_3), F_0_1), FAdd(FAdd(F_0_5, F_0_2), F_0_05),
               FAdd(F_0_5, F_0_1)>>

\* every record of the list the fetcher returned holds the filter in its
\* agency, letter case aside
AllMatchAgency ==
    \A i \in DOMAIN fetched :
        Contains(Lower(fetched[i].d.agency.s), Lower(req.agency.s))

\* C10: with a non-empty agency_filter, every opportunity of a list parsed
\* from the upstream response has an agency that contains the filter as a
\* case-insensitive substring; the fallback list is returned as it is.
C10_ParsedListFiltered ==
    (pc = "opportunities" /\ Truthy(req.agency))
        => IF FetchFallsBack(api_key, req.upstream)
           THEN fetched = FallbackRecords(now)
           ELSE AllMatchAgency

\* C10 as stated: every list the call can return holds only matching
\* agencies.
C10_EveryListFiltered ==
    (pc = "opportunities" /\ Truthy(req.agency)) => AllMatchAgency

\* a filter that keeps some records of a parsed list and drops others
C10_Witness ==
    /\ pc = "opportunities"
    /\ req.agency = Str(<<"v","a">>)
    /\ ~FetchFallsBack(api_key, req.upstream)
    /\ Len(fetched) = 1
    /\ Len(RecordsSent) = 3
    /\ fetched[1].d.agency = Str(<<"D","e","p","t"," ","o","f"," ","V","A">>)

(***************************************************************************)
(* Currency formatting alone: _format_currency applied to one non-negative *)
(* int, written in decimal digits.                                          *)
(***************************************************************************)
\* the amounts: leading digits (the examples, and the halves between two
\* printed values) followed by up to nine zeros, from 0 to the tens of
\* billions
Amounts ==
    LET heads ==
            { <<"0">>, <<"1">>, <<"2">>, <<"1","5">>, <<"2","5">>, <<"3","5">>, <<"1","0","5">>, <<"1","2","5">>,
              <<"2","4","9">>, <<"2","5","0">>, <<"2","5","1">>, <<"9","9","9">>, <<"9","9","9","5">>, <<"1","2","3","4","5">> }
    IN  { CanonDigits(h \o [ i \in 1..e |-> "0" ]) : h \in heads, e \in 0..9 }

InitCurrency ==
    /\ pc = "amount"
    /\ req \in Amounts
    /\ resp = Null
    /\ now = 0
    /\ api_key = Null
    /\ fetched = <<>>
    /\ held = <<>>
    /\ llmCalled = FALSE

\* _format_currency(amount)
FormatCurrency ==
    /\ pc = "amount"
    /\ resp' = _format_currency(req)
    /\ pc' = "formatted"
    /\ UNCHANGED <<now, api_key, req, fetched, held, llmCalled>>

NextCurrency == FormatCurrency

SpecCurrency == InitCurrency /\ [][NextCurrency]_vars

\* s is a run of one or more digits
IsDigits(s) == s # <<>> /\ \A i \in DOMAIN s : s[i] \in DigitSet

\* s is "$", digits, ".", one digit and the unit letter
IsOneDecimal(s, unit) ==
    /\ Len(s) >= 5
    /\ s[1] = "$" /\ s[Len(s)] = unit /\ s[Len(s) - 2] = "."
    /\ IsDigits(SubSeq(s, 2, Len(s) - 3))
    /\ s[Len(s) - 1] \in DigitSet

\* C11: an amount of 1e9 or more is formatted "$X.YB", of 1e6 or more
\* "$X.YM", of 1e3 or more "$XK" with no decimals, a smaller one "$" and
\* the amount; 2_500_000_000 gives "$2.5B", 2_500_000 gives "$2.5M", 2_500
\* gives "$3K" and 250 gives "$250".
C11_MagnitudeRule ==
    pc = "formatted" =>
        /\ Len(req) >= 10 => IsOneDecimal(resp, "B")
        /\ Len(req) \in 7..9 => IsOneDecimal(resp, "M")
        /\ Len(req) \in 4..6 =>
               /\ resp[1] = "$" /\ resp[Len(resp)] = "K"
               /\ IsDigits(SubSeq(resp, 2, Len(resp) - 1))
        /\ Len(req) <= 3 => resp = <<"$">> \o req
        /\ req = <<"2","5","0","0","0","0","0","0","0","0">> => resp = <<"$","2",".","5","B">>
        /\ req = <<"2","5","0","0","0","0","0">> => resp = <<"$","2",".","5","M">>
        /\ req = <<"2","5","0","0">> => resp = <<"$","3","K">>
        /\ req = <<"2","5","0">> => resp = <<"$","2","5","0">>

(***************************************************************************)
(* Set-aside normalization alone: _parse_set_aside applied to None, to ""  *)
(* and to set-aside texts in four letter cases.                             *)
(***************************************************************************)
\* None, "" and each text as written, in lower case, in upper case and
\* with the cases alternating
SetAsideTexts ==
    LET UpperChar(c) ==
            IF c \in Range(LowerChars)
            THEN UpperChars[CHOOSE i \in DOMAIN LowerChars : LowerChars[i] = c]
            ELSE c
        AsLower(s) == [ i \in DOMAIN s |-> LowerChar(s[i]) ]
        AsUpper(s) == [ i \in DOMAIN s |-> UpperChar(s[i]) ]
        Alternating(s) ==
            [ i \in DOMAIN s |->
                IF i % 2 = 1 THEN UpperChar(s[i]) ELSE LowerChar(s[i]) ]
        texts ==
            { <<"S","e","r","v","i","c","e","-","D","i","s","a","b","l","e","d"," ","V","e","t","e","r","a","n","-","O","w","n","e","d"," ","S","m","a","l","l"," ","B","u","s","i","n","e","s","s">>,
              <<"S","D","V","O","S","B"," ","S","e","t","-","A","s","i","d","e">>,
              <<"W","o","m","e","n","-","O","w","n","e","d"," ","S","m","a","l","l"," ","B","u","s","i","n","e","s","s">>,
              <<"E","c","o","n","o","m","i","c","a","l","l","y"," ","D","i","s","a","d","v","a","n","t","a","g","e","d"," ","W","O","S","B">>,
              <<"S","D","V","O","S","B"," ","o","r"," ","W","O","S","B">>,
              <<"H","U","B","Z","o","n","e"," ","S","m","a","l","l"," ","B","u","s","i","n","e","s","s">>,
              <<"H","u","b","Z","o","n","e"," ","w","o","m","e","n","-","o","w","n","e","d">>,
              <<"T","o","t","a","l"," ","S","m","a","l","l"," ","B","u","s","i","n","e","s","s"," ","S","e","t","-","A","s","i","d","e">>,
              <<"S","m","a","l","l"," ","B","u","s","i","n","e","s","s">>,
              <<"8","(","a",")"," ","S","m","a","l","l"," ","B","u","s","i","n","e","s","s">>,
              <<"8","(","a",")">>,
              <<"8","(","a",")"," ","S","o","l","e"," ","S","o","u","r","c","e">>,
              <<"C","o","m","p","e","t","i","t","i","v","e"," ","8","(","a",")"," ","H","u","b","Z","o","n","e">>,
              <<"V","e","t","e","r","a","n","-","O","w","n","e","d">>,
              <<"S","m","a","l","l","B","u","s","i","n","e","s","s">>,
              <<"F","u","l","l"," ","a","n","d"," ","O","p","e","n">>,
              <<"N","o","n","e">> }
    IN  { Null, EmptyStr }
        \cup { Str(s) : s \in texts }
        \cup { Str(AsLower(s)) : s \in texts }
        \cup { Str(AsUpper(s)) : s \in texts }
        \cup { Str(Alternating(s)) : s \in texts }

InitSetAside ==
    /\ pc = "set_aside_text"
    /\ req \in SetAsideTexts
    /\ resp = Null
    /\ now = 0
    /\ api_key = Null
    /\ fetched = <<>>
    /\ held = <<>>
    /\ llmCalled = FALSE

\* _parse_set_aside(set_aside_text)
ParseSetAside ==
    /\ pc = "set_aside_text"
    /\ resp' = _parse_set_aside(req)
    /\ pc' = "set_aside"
    /\ UNCHANGED <<now, api_key, req, fetched, held, llmCalled>>

NextSetAside == ParseSetAside

SpecSetAside == InitSetAside /\ [][NextSetAside]_vars

\* p, written in lower case, occurs in s in some letter case
InAnyCase(s, p) ==
    \E i \in 0..(Len(s) - Len(p)) :
        \A j \in 1..Len(p) : LowerChar(s[i + j]) = p[j]

\* p occurs in s letter for letter
Literally(s, p) ==
    \E i \in 0..(Len(s) - Len(p)) : \A j \in 1..Len(p) : s[i + j] = p[j]

\* C12: empty input gives "Open Competition"; otherwise the first pattern
\* found, in the order service-disabled/sdvosb, women-owned/wosb, hubzone,
\* "small business" (each in any letter case), then the literal "8(a)",
\* decides the result, and a text with none of them is returned unchanged;
\* "Service-Disabled Veteran-Owned Small Business" in any letter case gives
\* "SDVOSB", never "Small Business".
C12_PriorityOrder ==
    pc = "set_aside" =>
        /\ req \in { Null, EmptyStr } => resp = Str(<<"O","p","e","n"," ","C","o","m","p","e","t","i","t","i","o","n">>)
        /\ req \notin { Null, EmptyStr } =>
               resp =
                   IF InAnyCase(req.s, <<"s","e","r","v","i","c","e","-","d","i","s","a","b","l","e","d">>)
                      \/ InAnyCase(req.s, <<"s","d","v","o","s","b">>)
                   THEN Str(<<"S","D","V","O","S","B">>)
                   ELSE IF InAnyCase(req.s, <<"w","o","m","e","n","-","o","w","n","e","d">>)
                           \/ InAnyCase(req.s, <<"w","o","s","b">>)
                   THEN Str(<<"W","O","S","B">>)
                   ELSE IF InAnyCase(req.s, <<"h","u","b","z","o","n","e">>)
                   THEN Str(<<"H","u","b","Z","o","n","e">>)
                   ELSE IF InAnyCase(req.s, <<"s","m","a","l","l"," ","b","u","s","i","n","e","s","s">>)
                   THEN Str(<<"S","m","a","l","l"," ","B","u","s","i","n","e","s","s">>)
                   ELSE IF Literally(req.s, <<"8","(","a",")">>)
                   THEN Str(<<"8","(","a",")">>)
                   ELSE req
        /\ ( /\ req \notin { Null, EmptyStr }
             /\ Len(req.s) = Len(<<"S","e","r","v","i","c","e","-","D","i","s","a","b","l","e","d"," ","V","e","t","e","r","a","n","-","O","w","n","e","d"," ","S","m","a","l","l"," ","B","u","s","i","n","e","s","s">>)
             /\ InAnyCase(req.s, <<"s","e","r","v","i","c","e","-","d","i","s","a","b","l","e","d"," ","v","e","t","e","r","a","n","-","o","w","n","e","d"," ","s","m","a","l","l"," ","b","u","s","i","n","e","s","s">>) )
           => resp = Str(<<"S","D","V","O","S","B">>) /\ resp # Str(<<"S","m","a","l","l"," ","B","u","s","i","n","e","s","s">>)

\* the text in upper case has been normalized to "SDVOSB"
C12_Witness ==
    /\ pc = "set_aside"
    /\ req = Str(<<"S","E","R","V","I","C","E","-","D","I","S","A","B","L","E","D"," ","V","E","T","E","R","A","N","-","O","W","N","E","D"," ","S","M","A","L","L"," ","B","U","S","I","N","E","S","S">>)
    /\ resp = Str(<<"S","D","V","O","S","B">>)

(***************************************************************************)
(* Estimated value extraction alone: _parse_estimated_value applied to raw *)
(* records that carry any of the three amount fields, as an int or a str,  *)
(* and a description.                                                       *)
(***************************************************************************)
ValueItems ==
    LET Absent == [t |-> "absent"]
        Item(v) ==
            Dict([ k \in { k \in DOMAIN v : v[k] # Absent } |-> v[k] ])
    IN  { Item([ award |-> a, estimatedValue |-> e,
                 baseAndAllOptionsValue |-> b, description |-> d ]) :
            a \in { Absent, EmptyDict,
                    Dict([ amount |-> Num(<<"0">>) ]),
                    Dict([ amount |-> Num(<<"1","5","0","0","0","0","0">>) ]),
                    Dict([ amount |-> Str(<<"$","3",",","0","0","0">>) ]) },
            e \in { Absent, Str(<<"$","2",",","0","0","0">>), Str(<<"T","B","D">>), Num(<<"2","6","0","0">>) },
            b \in { Absent, Num(<<"7","5","0">>), Str(<<"1",",","2","5","0",",","0","0","0"," ","U","S","D">>) },
            d \in { Absent, Str(<<"B","u","d","g","e","t"," ","o","f"," ","$","5"," ","m","i","l","l","i","o","n"," ","o","v","e","r"," ","t","w","o"," ","y","e","a","r","s">>),
                    Str(<<"R","e","s","u","r","f","a","c","i","n","g"," ","o","f"," ","l","o","t"," ","4">>),
                    Str(<<"w","o","r","t","h"," ","a","b","o","u","t"," ","3"," ","b","i","l","l","i","o","n"," ","d","o","l","l","a","r","s">>) } }

InitValue ==
    /\ pc = "item"
    /\ req \in ValueItems
    /\ resp = Null
    /\ now = 0
    /\ api_key = Null
    /\ fetched = <<>>
    /\ held = <<>>
    /\ llmCalled = FALSE

\* _parse_estimated_value(item)
ParseEstimatedValue ==
    /\ pc = "item"
    /\ resp' = _parse_estimated_value(req)
    /\ pc' = "estimated_value"
    /\ UNCHANGED <<now, api_key, req, fetched, held, llmCalled>>

NextValue == ParseEstimatedValue

SpecValue == InitValue /\ [][NextValue]_vars

\* the amount fields the record carries
AmountFields(item) ==
    ( IF "award" \in DOMAIN item.d /\ "amount" \in DOMAIN item.d.award.d
      THEN { item.d.award.d.amount } ELSE {} )
    \cup { item.d[k] :
             k \in { "estimatedValue", "baseAndAllOptionsValue" } \cap DOMAIN item.d }

\* the amounts that the string amount fields spell: the first run of
\* digits, commas and "$", without the commas and the "$"
SpelledAmounts(item) ==
    { CanonDigits(SelectSeq(FirstNumber(v.s), LAMBDA c : c \in DigitSet)) :
        v \in { w \in AmountFields(item) :
                  /\ w.t = "str"
                  /\ \E i \in DOMAIN w.s : w.s[i] \in DigitSet } }

\* the text of the description that states a value, <<>> when none does
ValueHint(item) ==
    LET description == Get(item, "description", EmptyStr).s
    IN  IF FirstDollarMatch(description) # <<>>
        THEN FirstDollarMatch(description)
        ELSE FirstWordsMatch(description)

\* C13: for every raw record, a numeric amount in any of award.amount,
\* estimatedValue and baseAndAllOptionsValue is the result, formatted, in
\* preference to any string amount field; a string amount field is parsed
\* only if no numeric amount is present; the description is scanned only if
\* neither gives a value, and gives "~" and the matched text; "Not
\* specified" is the result exactly when none of the three matches.
C13_NumericFirst ==
    pc = "estimated_value" =>
        LET numeric == { v.n : v \in { w \in AmountFields(req) : w.t = "num" } }
            spelled == SpelledAmounts(req)
        IN  /\ numeric # {} =>
                \E n \in numeric : resp = Str(_format_currency(n))
            /\ numeric = {} /\ spelled # {} =>
                \E n \in spelled : resp = Str(_format_currency(n))
            /\ numeric = {} /\ spelled = {} /\ ValueHint(req) # <<>> =>
                resp = Str(<<"~">> \o ValueHint(req))
            /\ resp = Str(<<"N","o","t"," ","s","p","e","c","i","f","i","e","d">>) <=>
                numeric = {} /\ spelled = {} /\ ValueHint(req) = <<>>

====
